---- MODULE Spec2Model ----
(***************************************************************************)
(* A model of the resume-analysis backend: the job recommendation engine   *)
(* (backend/job_recommender.py), the component scorer (backend/scorer.py)  *)
(* and the analysis store behind the /mark_best and /analyses/bulk routes  *)
(* (backend/api_routes.py).                                                *)
(*                                                                         *)
(* Conventions.                                                            *)
(*  - A Python Optional is a sequence of length at most one: None is <<>>, *)
(*    an object x is <<x>>.                                                *)
(*  - Floats that the code only adds, scales and compares are kept as      *)
(*    integers in a fixed unit (documented where they are introduced).     *)
(*  - What a library returns for data the model does not hold (tf-idf      *)
(*    weights, class probabilities, the order argsort gives equal keys)    *)
(*    is an input of the action, drawn from every value the library can    *)
(*    return.                                                              *)
(***************************************************************************)
EXTENDS Integers, Sequences, FiniteSets, TLC

VARIABLES
    eng,        \* the JobRecommender instance (its six fields)
    obs,        \* what the last engine operation was given and what it returned
    rthr,       \* a refresh() call in progress (concurrent specification)
    kthr,       \* a recommend() call in progress (concurrent specification)
    resumes,    \* db.resumes
    analyses,   \* db.analyses, in insertion order
    reqs,       \* the HTTP requests in flight, each with its position
    sin,        \* the arguments of calculate_scores
    sout        \* the ComponentScore it returned

vars == <<eng, obs, rthr, kthr, resumes, analyses, reqs, sin, sout>>

None == <<>>
Some(x) == <<x>>

Min(a, b) == IF a <= b THEN a ELSE b
Max(a, b) == IF a >= b THEN a ELSE b

Range(f) == {f[i] : i \in DOMAIN f}

(***************************************************************************)
(* Bounds of the model.                                                    *)
(***************************************************************************)
\* the longest catalog document (entries in the dataset file)
MaxEntries == 2
\* the largest top_n a caller passes
MaxTopN == 3
\* similarity and probability take the levels 0..MaxLevel
MaxLevel == 1
\* the HTTP requests in flight at one time
MaxRequests == 2
\* the analysis records the store holds at most
MaxAnalyses == 3

(***************************************************************************)
(* The job dataset file, backend/data/job_dataset.json.                    *)
(*                                                                         *)
(* An entry of the document is a JSON value.  obj says whether it is an    *)
(* object; keys holds those of "id", "title", "description" it has;       *)
(* category is "absent" when the object has no "category" key; description *)
(* is "text" (a string with at least one term the vectorizer keeps) or     *)
(* "stop" (a string of stop words only).  requirements, skills and tags    *)
(* are left at their default, [].                                          *)
(***************************************************************************)
RequiredKeys == {"id", "title", "description"}

EntryPool ==
    { [obj |-> TRUE,  keys |-> RequiredKeys, id |-> 1, category |-> "eng",    description |-> "text"],
      [obj |-> TRUE,  keys |-> RequiredKeys, id |-> 2, category |-> "absent", description |-> "text"],
      [obj |-> TRUE,  keys |-> RequiredKeys, id |-> 3, category |-> "absent", description |-> "stop"],
      [obj |-> TRUE,  keys |-> {"id", "description"},    id |-> 5, category |-> "eng", description |-> "text"],
      [obj |-> TRUE,  keys |-> {"title", "description"}, id |-> 6, category |-> "eng", description |-> "text"],
      [obj |-> TRUE,  keys |-> {"id", "title"},          id |-> 7, category |-> "eng", description |-> "text"],
      [obj |-> FALSE, keys |-> {},           id |-> 8, category |-> "absent", description |-> "text"] }

EntrySeqs == UNION {[1..n -> EntryPool] : n \in 0..MaxEntries}

\* The file: missing, not JSON, or a JSON document of one of five shapes:
\*   "list"       [e1, e2, ...]            "jobs"        {"jobs": [e1, ...]}
\*   "nojobs"     {} without a "jobs" key  "jobs_scalar" {"jobs": 5}
\*   "scalar"     5
Datasets ==
    { [kind |-> "missing", shape |-> "none", entries |-> <<>>],
      [kind |-> "badjson", shape |-> "none", entries |-> <<>>] }
    \cup { [kind |-> "json", shape |-> s, entries |-> <<>>] :
              s \in {"nojobs", "jobs_scalar", "scalar"} }
    \cup { [kind |-> "json", shape |-> s, entries |-> es] :
              s \in {"list", "jobs"}, es \in EntrySeqs }

(***************************************************************************)
(* JobRecommender._load_dataset, one step of it at a time.  A call is a    *)
(* record t: pc is its position, todo the entries the loop at line 51 has  *)
(* still to visit, exc the exception that left it.                         *)
(***************************************************************************)
\* (mutant) the check for "title" is forgotten
KeepEntryWithoutTitle(entry) ==
    /\ entry.obj
    /\ ~ ("id" \notin entry.keys \/ "description" \notin entry.keys)

\* line 52-55: the entry is kept
KeepEntry(entry) ==
    /\ entry.obj
    /\ ~ ("id" \notin entry.keys \/ "title" \notin entry.keys \/ "description" \notin entry.keys)

\* line 56-66: str(entry["id"]), category defaulting to "general"
Normalize(entry) ==
    [ id          |-> ToString(entry.id),
      category    |-> IF entry.category = "absent" THEN "general" ELSE entry.category,
      description |-> entry.description ]

\* line 44-45: the value of `jobs` is a list
JobsIsList(d) == d.shape \in {"list", "jobs"}

(***************************************************************************)
(* The engine.  vectorizer, job_matrix and classifier are Optionals.  A    *)
(* vectorizer is [fitted, corpus]: the corpus it was fitted on (<<>> while *)
(* unfitted); a job matrix is [corpus]: one row per document of the corpus *)
(* it was computed from; a classifier is [fitted, classes]: classes_ after *)
(* fit.  The two category maps are sets of pairs.                          *)
(***************************************************************************)
\* __init__, lines 20-25
EmptyEngine ==
    [ jobs              |-> <<>>,
      vectorizer        |-> None,
      job_matrix        |-> None,
      classifier        |-> None,
      category_to_index |-> {},
      index_to_category |-> {} ]

\* sorted(...) on category names: their alphabetical order
CatOrder == <<"eng", "general">>
CatRank(c) == CHOOSE i \in 1..Len(CatOrder) : CatOrder[i] = c

\* line 83-84: enumerate(sorted(set(categories))), 0-based
CategoryToIndex(cats) ==
    LET unique == Range(cats)
    IN  { <<c, Cardinality({u \in unique : CatRank(u) < CatRank(c)})>> : c \in unique }

\* line 85
IndexToCategory(c2i) == { <<p[2], p[1]>> : p \in c2i }

\* line 72-78: the document and the category of every job
CorpusOf(jobs) == [i \in 1..Len(jobs) |-> jobs[i].description]
CategoriesOf(jobs) == [i \in 1..Len(jobs) |-> jobs[i].category]

\* line 81: fit_transform raises ValueError("empty vocabulary") when no document
\* has a term left after stop-word removal
EmptyVocabulary(corpus) == \A i \in 1..Len(corpus) : corpus[i] # "text"

\* (mutant) the JSONDecodeError handler returns without resetting self.jobs
JobsAtLoadKeptOnBadJson(e, d) == IF d.kind = "badjson" THEN e.jobs ELSE <<>>

\* lines 33, 41, 47 and 50: whatever the file holds, self.jobs restarts empty
JobsAtLoad(e, d) == <<>>

\* (mutant) the threshold is off by one
TooFewCategoriesOffByOne(cats) == Cardinality(Range(cats)) <= 2

\* line 87
TooFewCategories(cats) == Cardinality(Range(cats)) < 2

StartCall(ctor) ==
    [pc |-> "load", ctor |-> ctor, todo |-> <<>>, corpus |-> <<>>, cats |-> <<>>, exc |-> "none"]

Finished(t) == t.pc \in {"done", "raised"}

\* One step of __init__ (t.ctor) or refresh() on engine e reading dataset d.
RefreshStep(e, t, d) ==
    CASE t.pc = "load" ->
            \* lines 31-50: every failure path, and line 50, set self.jobs = []
            [ e |-> [e EXCEPT !.jobs = JobsAtLoad(e, d)],
              t |-> IF d.kind = "json" /\ JobsIsList(d)
                    THEN [t EXCEPT !.pc = "append", !.todo = d.entries]
                    ELSE [t EXCEPT !.pc = "check"] ]
      [] t.pc = "append" ->
            \* lines 51-67, one iteration
            IF t.todo = <<>>
            THEN [e |-> e, t |-> [t EXCEPT !.pc = "check"]]
            ELSE [ e |-> IF KeepEntry(Head(t.todo))
                         THEN [e EXCEPT !.jobs = Append(@, Normalize(Head(t.todo)))]
                         ELSE e,
                   t |-> [t EXCEPT !.todo = Tail(@)] ]
      [] t.pc = "check" ->
            \* lines 27 and 142: if self.jobs
            [ e |-> e,
              t |-> [t EXCEPT !.pc = IF e.jobs # <<>> THEN "corpus"
                                     ELSE IF t.ctor THEN "done" ELSE "clear_vec"] ]
      [] t.pc = "corpus" ->
            \* lines 70-78
            [ e |-> e,
              t |-> [t EXCEPT !.pc = "new_vec", !.corpus = CorpusOf(e.jobs),
                              !.cats = CategoriesOf(e.jobs)] ]
      [] t.pc = "new_vec" ->
            \* line 80
            [ e |-> [e EXCEPT !.vectorizer = Some([fitted |-> FALSE, corpus |-> <<>>])],
              t |-> [t EXCEPT !.pc = "fit_vec"] ]
      [] t.pc = "fit_vec" ->
            \* line 81, the call: fits the vectorizer object in place
            IF EmptyVocabulary(t.corpus)
            THEN [e |-> e, t |-> [t EXCEPT !.pc = "raised", !.exc = "ValueError"]]
            ELSE [ e |-> IF e.vectorizer # None
                         THEN [e EXCEPT !.vectorizer = Some([fitted |-> TRUE, corpus |-> t.corpus])]
                         ELSE e,
                   t |-> [t EXCEPT !.pc = "set_matrix"] ]
      [] t.pc = "set_matrix" ->
            \* line 81, the assignment
            [ e |-> [e EXCEPT !.job_matrix = Some([corpus |-> t.corpus])],
              t |-> [t EXCEPT !.pc = "set_c2i"] ]
      [] t.pc = "set_c2i" ->
            \* lines 83-84
            [ e |-> [e EXCEPT !.category_to_index = CategoryToIndex(t.cats)],
              t |-> [t EXCEPT !.pc = "set_i2c"] ]
      [] t.pc = "set_i2c" ->
            \* line 85
            [ e |-> [e EXCEPT !.index_to_category = IndexToCategory(e.category_to_index)],
              t |-> [t EXCEPT !.pc = "new_clf"] ]
      [] t.pc = "new_clf" ->
            \* lines 87-100
            IF TooFewCategories(t.cats)
            THEN [e |-> [e EXCEPT !.classifier = None], t |-> [t EXCEPT !.pc = "done"]]
            ELSE [ e |-> [e EXCEPT !.classifier = Some([fitted |-> FALSE, classes |-> {}])],
                   t |-> [t EXCEPT !.pc = "fit_clf"] ]
      [] t.pc = "fit_clf" ->
            \* line 101: y holds category_to_index[cat] of every job; classes_ is its set
            [ e |-> IF e.classifier # None
                    THEN [e EXCEPT !.classifier =
                            Some([fitted |-> TRUE,
                                  classes |-> {p[2] : p \in {q \in e.category_to_index :
                                                             q[1] \in Range(t.cats)}}])]
                    ELSE e,
              t |-> [t EXCEPT !.pc = "done"] ]
      [] t.pc = "clear_vec" ->
            [e |-> [e EXCEPT !.vectorizer = None], t |-> [t EXCEPT !.pc = "clear_clf"]]
      [] t.pc = "clear_clf" ->
            [e |-> [e EXCEPT !.classifier = None], t |-> [t EXCEPT !.pc = "clear_matrix"]]
      [] t.pc = "clear_matrix" ->
            [e |-> [e EXCEPT !.job_matrix = None], t |-> [t EXCEPT !.pc = "clear_c2i"]]
      [] t.pc = "clear_c2i" ->
            [e |-> [e EXCEPT !.category_to_index = {}], t |-> [t EXCEPT !.pc = "clear_i2c"]]
      [] t.pc = "clear_i2c" ->
            [e |-> [e EXCEPT !.index_to_category = {}], t |-> [t EXCEPT !.pc = "done"]]
      [] OTHER -> [e |-> e, t |-> t]

\* The call run to its end with nothing else running.
RECURSIVE RunRefresh(_, _, _)
RunRefresh(e, t, d) ==
    IF Finished(t) THEN [e |-> e, t |-> t]
    ELSE LET n == RefreshStep(e, t, d) IN RunRefresh(n.e, n.t, d)

\* JobRecommender(...): lines 17-28
Construct(d) == RunRefresh(EmptyEngine, StartCall(TRUE), d)

\* refresh(): lines 140-149
Refresh(e, d) == RunRefresh(e, StartCall(FALSE), d)

(***************************************************************************)
(* JobRecommender.recommend, one step of it at a time.                     *)
(*                                                                         *)
(* Scores.  similarity_scores and probability_scores are kept as levels    *)
(* 0..MaxLevel of one unit u; final_score is kept in tenths of that unit,  *)
(* so that 0.6*s + 0.4*p is the integer 6*s + 4*p.                         *)
(*                                                                         *)
(* The oracle o of a call is what scikit-learn and numpy return to it:     *)
(*   o.sims  cosine_similarity(...)[0], one level per row of the matrix    *)
(*   o.cp    predict_proba(...)[0], one level per class of the classifier  *)
(*   o.perm  np.argsort(combined_scores): any permutation that lists the   *)
(*           scores in non-decreasing order (the default sort kind is not  *)
(*           stable, so equal scores come in any order)                    *)
(* All feature spaces have the same dimension in this model, so a resume   *)
(* vector of one vectorizer can be multiplied with the matrix of another.  *)
(***************************************************************************)
Levels == 0..MaxLevel

Perms(n) == {f \in [1..n -> 1..n] : \A i, j \in 1..n : i # j => f[i] # f[j]}

\* (mutant) the [::-1] is forgotten
NotReversed(s) == s

\* line 126: [::-1]
Reverse(s) == [i \in 1..Len(s) |-> s[Len(s) + 1 - i]]

\* Python's s[:n]
SliceTo(s, n) ==
    IF n >= 0 THEN SubSeq(s, 1, Min(n, Len(s)))
    ELSE SubSeq(s, 1, Max(Len(s) + n, 0))

\* line 125
CombinedScore(s, p) == 6 * s + 4 * p

\* np.argsort's contract: a permutation putting the scores in non-decreasing order
IsArgsort(perm, scores) ==
    /\ perm \in Perms(Len(scores))
    /\ \A i, j \in 1..Len(scores) : i < j => scores[perm[i]] <= scores[perm[j]]

\* dict.get(key, 0.0) on a dict kept as a set of pairs
GetOr0(pairs, key) ==
    IF \E p \in pairs : p[1] = key
    THEN (CHOOSE p \in pairs : p[1] = key)[2]
    ELSE 0

\* A text is a sequence of characters.  str.strip() drops the whitespace at both ends.
Whitespace == {" ", "\t", "\n"}

RECURSIVE LStrip(_)
LStrip(s) == IF s # <<>> /\ Head(s) \in Whitespace THEN LStrip(Tail(s)) ELSE s

RECURSIVE RStrip(_)
RStrip(s) ==
    IF s # <<>> /\ s[Len(s)] \in Whitespace THEN RStrip(SubSeq(s, 1, Len(s) - 1)) ELSE s

Strip(s) == RStrip(LStrip(s))

\* (mutant) the text is tested without strip()
IsBlankWithoutStrip(text) == text = <<>>

\* line 104: not resume_text.strip()
IsBlank(text) == Strip(text) = <<>>

NoReads == [jobs |-> {}, vectorizer |-> {}, job_matrix |-> {}, classifier |-> {},
            index_to_category |-> {}]

StartRecommend(text, top_n) ==
    [ pc |-> "blank", text |-> text, top_n |-> top_n,
      sims |-> <<>>, probs |-> <<>>, cp |-> {}, catp |-> {},
      combined |-> <<>>, ranked |-> <<>>, ret |-> <<>>, exc |-> "none",
      seen |-> NoReads ]

RecFinished(k) == k.pc \in {"done", "raised", "infeasible"}

Raise(k, exc) == [k EXCEPT !.pc = "raised", !.exc = exc]

\* line 129-134, one recommendation
Recommendation(e, k, idx) ==
    [ index             |-> idx,
      job               |-> e.jobs[idx],
      similarity_score  |-> k.sims[idx],
      probability_score |-> k.probs[idx],
      final_score       |-> k.combined[idx] ]

\* One step of recommend() on engine e.  k.seen collects every value of a field
\* of self the call has read.
RecommendStep(e, k, o) ==
    CASE k.pc = "blank" ->
            \* line 104-105
            IF IsBlank(k.text) THEN [k EXCEPT !.pc = "done", !.ret = <<>>]
            ELSE [k EXCEPT !.pc = "guard"]
      [] k.pc = "guard" ->
            \* line 106-107, with `or` reading left to right
            LET s1 == [k.seen EXCEPT !.jobs = @ \cup {e.jobs}]
                s2 == IF e.jobs # <<>> THEN [s1 EXCEPT !.vectorizer = @ \cup {e.vectorizer}] ELSE s1
                s3 == IF e.jobs # <<>> /\ e.vectorizer # None
                      THEN [s2 EXCEPT !.job_matrix = @ \cup {e.job_matrix}] ELSE s2
            IN  IF e.jobs = <<>> \/ e.vectorizer = None \/ e.job_matrix = None
                THEN [k EXCEPT !.pc = "done", !.ret = <<>>, !.seen = s3]
                ELSE [k EXCEPT !.pc = "transform", !.seen = s3]
      [] k.pc = "transform" ->
            \* line 109
            LET k1 == [k EXCEPT !.seen.vectorizer = @ \cup {e.vectorizer}]
            IN  IF e.vectorizer = None THEN Raise(k1, "AttributeError")
                ELSE IF ~ e.vectorizer[1].fitted THEN Raise(k1, "NotFittedError")
                ELSE [k1 EXCEPT !.pc = "similarity"]
      [] k.pc = "similarity" ->
            \* line 110
            LET k1 == [k EXCEPT !.seen.job_matrix = @ \cup {e.job_matrix}]
            IN  IF e.job_matrix = None THEN Raise(k1, "ValueError")
                ELSE [k1 EXCEPT !.pc = "zeros",
                                !.sims = [i \in 1..Len(e.job_matrix[1].corpus) |-> o.sims[i]]]
      [] k.pc = "zeros" ->
            \* line 112
            [k EXCEPT !.pc = "clf", !.probs = [i \in 1..Len(e.jobs) |-> 0],
                      !.seen.jobs = @ \cup {e.jobs}]
      [] k.pc = "clf" ->
            \* line 113
            [k EXCEPT !.pc = IF e.classifier # None THEN "proba" ELSE "combine",
                      !.seen.classifier = @ \cup {e.classifier}]
      [] k.pc = "proba" ->
            \* lines 114-115 and classes_ of line 117
            LET k1 == [k EXCEPT !.seen.classifier = @ \cup {e.classifier}]
            IN  IF e.classifier = None THEN Raise(k1, "AttributeError")
                ELSE IF ~ e.classifier[1].fitted THEN Raise(k1, "NotFittedError")
                ELSE [k1 EXCEPT !.pc = "catmap",
                                !.cp = {<<c, o.cp[c]>> : c \in e.classifier[1].classes}]
      [] k.pc = "catmap" ->
            \* lines 116-120: category_probabilities[index_to_category[class_idx]]
            [k EXCEPT !.pc = "assign",
                      !.catp = { <<x[2][2], x[1][2]>> :
                                   x \in {y \in k.cp \X e.index_to_category : y[1][1] = y[2][1]} },
                      !.seen.index_to_category = @ \cup {e.index_to_category}]
      [] k.pc = "assign" ->
            \* lines 121-123
            LET k1 == [k EXCEPT !.seen.jobs = @ \cup {e.jobs}]
            IN  IF Len(e.jobs) > Len(k.probs) THEN Raise(k1, "IndexError")
                ELSE [k1 EXCEPT !.pc = "combine",
                                !.probs = [i \in 1..Len(k.probs) |->
                                             IF i <= Len(e.jobs)
                                             THEN GetOr0(k.catp, e.jobs[i].category)
                                             ELSE k.probs[i]]]
      [] k.pc = "combine" ->
            \* line 125, with numpy's broadcasting of a length-1 operand
            LET ns == Len(k.sims)
                np == Len(k.probs)
                S(i) == IF ns = 1 THEN k.sims[1] ELSE k.sims[i]
                P(i) == IF np = 1 THEN k.probs[1] ELSE k.probs[i]
            IN  IF ns = np \/ ns = 1 \/ np = 1
                THEN [k EXCEPT !.pc = "argsort",
                               !.combined = [i \in 1..(IF ns = 1 THEN np ELSE ns) |->
                                               CombinedScore(S(i), P(i))]]
                ELSE Raise(k, "ValueError")
      [] k.pc = "argsort" ->
            \* line 126
            IF IsArgsort(o.perm, k.combined)
            THEN [k EXCEPT !.pc = "collect", !.ranked = Reverse(o.perm)]
            ELSE [k EXCEPT !.pc = "infeasible"]
      [] k.pc = "collect" ->
            \* lines 128-135
            LET top == SliceTo(k.ranked, k.top_n)
                k1 == [k EXCEPT !.seen.jobs = @ \cup {e.jobs}]
            IN  IF \E i \in 1..Len(top) :
                      top[i] > Len(e.jobs) \/ top[i] > Len(k.sims) \/ top[i] > Len(k.probs)
                THEN Raise(k1, "IndexError")
                ELSE [k1 EXCEPT !.pc = "done",
                                !.ret = [i \in 1..Len(top) |-> Recommendation(e, k, top[i])]]
      [] OTHER -> k

\* The call run to its end with nothing else running.
RECURSIVE RunRecommend(_, _, _)
RunRecommend(e, k, o) ==
    IF RecFinished(k) THEN k ELSE RunRecommend(e, RecommendStep(e, k, o), o)

\* recommend(resume_text, top_n): lines 103-135
Recommend(e, text, top_n, o) == RunRecommend(e, StartRecommend(text, top_n), o)

(***************************************************************************)
(* The engine used by one caller at a time: every call runs to its end.    *)
(* obs.op is the call that has just returned, obs.d the dataset file it     *)
(* read and obs.k the recommend() call as it ended; obs.load keeps, until   *)
(* the next refresh(), what kind of file the last __init__ or refresh()    *)
(* found, what the engine was before it and the exception that left it.    *)
(***************************************************************************)
\* the engine that a completed build over the jobs list J is to give
BuildOf(J) ==
    IF J = <<>> THEN EmptyEngine
    ELSE LET c2i == CategoryToIndex(CategoriesOf(J)) IN
         [ jobs              |-> J,
           vectorizer        |-> Some([fitted |-> TRUE, corpus |-> CorpusOf(J)]),
           job_matrix        |-> Some([corpus |-> CorpusOf(J)]),
           classifier        |-> IF Cardinality(c2i) >= 2
                                 THEN Some([fitted |-> TRUE, classes |-> {p[2] : p \in c2i}])
                                 ELSE None,
           category_to_index |-> c2i,
           index_to_category |-> IndexToCategory(c2i) ]

Built(e) == e.jobs # <<>> /\ e = BuildOf(e.jobs)

Unbuilt(e) == e = EmptyEngine

EngineKind(e) == IF Unbuilt(e) THEN "unbuilt" ELSE IF Built(e) THEN "built" ELSE "torn"

ResumeTexts == { <<>>, <<" ">>, <<"\t", " ">>, <<" ", "d", "e", "v", "\n">> }

TopNs == (-1)..MaxTopN

Rows(e) == IF e.job_matrix = None THEN 0 ELSE Len(e.job_matrix[1].corpus)
Classes(e) == IF e.classifier = None THEN {} ELSE e.classifier[1].classes

\* what the libraries may return to a call on engine e
Oracles(nrows, classes, lens) ==
    [ sims : [1..nrows -> Levels],
      cp   : [classes -> Levels],
      perm : UNION {Perms(n) : n \in lens} ]

OraclesFor(e, text) ==
    IF IsBlank(text) THEN Oracles(0, {}, {0})
    ELSE Oracles(Rows(e), Classes(e), {Rows(e), Len(e.jobs)})

NoCall == StartRecommend(<<>>, 0)

NoDataset == [kind |-> "none", shape |-> "none", entries |-> <<>>]

IdleThreads ==
    /\ rthr = [t |-> StartCall(FALSE), d |-> NoDataset, at |-> "idle"]
    /\ kthr = [k |-> NoCall, at |-> "idle"]

IdleStore == resumes = {} /\ analyses = <<>> /\ reqs = <<>>

IdleScorer == sin = <<>> /\ sout = <<>>

\* module import, line 159: job_recommender = build_job_recommender()
InitRec ==
    /\ \E d \in Datasets :
          LET r == Construct(d)
          IN  /\ r.t.pc = "done"
              /\ eng = r.e
              /\ obs = [ op |-> "construct", d |-> d,
                         load |-> [kind |-> d.kind, prev |-> "unbuilt", exc |-> "none"],
                         k |-> NoCall ]
    /\ IdleThreads /\ IdleStore /\ IdleScorer

RefreshCall ==
    /\ obs.op = "idle"
    /\ \E d \in Datasets :
          LET r == Refresh(eng, d)
          IN  /\ eng' = r.e
              /\ obs' = [ op |-> "refresh", d |-> d,
                          load |-> [kind |-> d.kind, prev |-> EngineKind(eng),
                                    exc |-> r.t.exc],
                          k |-> NoCall ]
    /\ UNCHANGED <<rthr, kthr, resumes, analyses, reqs, sin, sout>>

RecommendCall ==
    /\ obs.op = "idle"
    /\ \E text \in ResumeTexts, n \in TopNs :
          \E o \in OraclesFor(eng, text) :
             LET k == Recommend(eng, text, n, o)
             IN  /\ k.pc # "infeasible"
                 /\ obs' = [obs EXCEPT !.op = "recommend", !.k = k]
    /\ UNCHANGED <<eng, rthr, kthr, resumes, analyses, reqs, sin, sout>>

\* the caller has taken the result
Return ==
    /\ obs.op # "idle"
    /\ obs' = [obs EXCEPT !.op = "idle", !.d = NoDataset, !.k = NoCall]
    /\ UNCHANGED <<eng, rthr, kthr, resumes, analyses, reqs, sin, sout>>

NextRec == RefreshCall \/ RecommendCall \/ Return

SpecRec == InitRec /\ [][NextRec]_vars

(***************************************************************************)
(* Properties of the engine (SpecRec).                                     *)
(***************************************************************************)
JustRecommended == obs.op = "recommend"
Returned == obs.op = "recommend" /\ obs.k.pc = "done"
OnlyWhitespace(text) == \A i \in 1..Len(text) : text[i] \in Whitespace
ReturnedIndexes == {obs.k.ret[i].index : i \in 1..Len(obs.k.ret)}

\* C3: a refresh() that fails leaves the engine Unbuilt, and the engine is never
\* half-built (some fields set, or fields of different builds).
C3_RefreshNeverHalfBuilt ==
    /\ EngineKind(eng) # "torn"
    /\ (obs.op = "refresh" /\ obs.load.exc # "none") => Unbuilt(eng)

C6_TiesInCatalogOrder ==
    (Returned /\ Built(eng) /\ obs.k.top_n >= 1) =>
        /\ \A i, j \in 1..Len(obs.k.ret) :
              (i < j /\ obs.k.ret[i].final_score = obs.k.ret[j].final_score)
                  => obs.k.ret[i].index < obs.k.ret[j].index
        /\ \A i \in 1..Len(obs.k.ret) : \A j \in 1..Len(eng.jobs) :
              (j \notin ReturnedIndexes /\ obs.k.combined[j] = obs.k.ret[i].final_score)
                  => obs.k.ret[i].index < j

\* C7: on a Built engine, for a non-blank text and top_n >= 1, recommend returns
\* min(top_n, catalog size) distinct entries, each with final = 0.6*sim + 0.4*prob,
\* in non-increasing final_score order, and no entry left out scores higher than one
\* returned.
C7_TopNRanking ==
    (JustRecommended /\ Built(eng) /\ ~ OnlyWhitespace(obs.k.text) /\ obs.k.top_n >= 1) =>
        LET ret == obs.k.ret IN
        /\ obs.k.pc = "done"
        /\ Len(ret) = Min(obs.k.top_n, Len(eng.jobs))
        /\ \A i, j \in 1..Len(ret) : i # j => ret[i].index # ret[j].index
        /\ \A i \in 1..Len(ret) :
              /\ ret[i].index \in 1..Len(eng.jobs)
              /\ ret[i].job = eng.jobs[ret[i].index]
              /\ ret[i].final_score = 6 * ret[i].similarity_score + 4 * ret[i].probability_score
        /\ \A i, j \in 1..Len(ret) : i < j => ret[i].final_score >= ret[j].final_score
        /\ \A i \in 1..Len(ret) : \A j \in 1..Len(eng.jobs) :
              j \notin ReturnedIndexes =>
                  6 * obs.k.sims[j] + 4 * obs.k.probs[j] <= ret[i].final_score

C7_Witness ==
    /\ JustRecommended /\ Built(eng) /\ ~ OnlyWhitespace(obs.k.text)
    /\ Len(eng.jobs) = 2 /\ obs.k.top_n = 1
    /\ Len(obs.k.ret) = 1
    /\ obs.k.ret[1].similarity_score > 0 /\ obs.k.ret[1].probability_score > 0
    /\ \E j \in 1..2 : obs.k.combined[j] < obs.k.ret[1].final_score

\* C8: recommend returns [] and does not raise when the engine is Unbuilt or the
\* text is empty or only whitespace, whatever top_n is.
C8_EmptyWhenUnbuiltOrBlank ==
    (JustRecommended /\ (Unbuilt(eng) \/ OnlyWhitespace(obs.k.text))) =>
        (obs.k.pc = "done" /\ obs.k.ret = <<>>)

C8_Witness ==
    /\ JustRecommended /\ Built(eng)
    /\ obs.k.text # <<>> /\ OnlyWhitespace(obs.k.text)
    /\ obs.k.top_n = MaxTopN

\* C9: after a build that succeeded the engine holds a classifier iff the loaded
\* catalog has at least two distinct categories; without one every recommendation
\* has probability_score 0 and final_score 0.6*similarity_score.
C9_ClassifierIffTwoCategories ==
    obs.load.exc = "none" =>
        /\ (eng.classifier # None) <=> (Cardinality(Range(CategoriesOf(eng.jobs))) >= 2)
        /\ (Returned /\ eng.classifier = None) =>
              \A i \in 1..Len(obs.k.ret) :
                 /\ obs.k.ret[i].probability_score = 0
                 /\ obs.k.ret[i].final_score = 6 * obs.k.ret[i].similarity_score

C9_Witness ==
    /\ obs.load.exc = "none" /\ obs.load.prev = "built"
    /\ eng.classifier = None /\ Len(eng.jobs) = 2
    /\ Returned /\ Len(obs.k.ret) = 2
    /\ obs.k.ret[1].similarity_score > 0

\* C10: loading keeps, in document order, exactly the entries that are objects with
\* id, title and description, with category "general" when absent; a document that is
\* neither a list nor an object with a jobs list gives an empty catalog and an Unbuilt
\* engine, without raising.
ValidEntry(entry) == entry.obj /\ RequiredKeys \subseteq entry.keys

C10_LoadKeepsValidEntries ==
    obs.op \in {"construct", "refresh"} =>
        LET valid == SelectSeq(obs.d.entries, ValidEntry) IN
        IF obs.d.kind = "json" /\ obs.d.shape \in {"list", "jobs"}
        THEN /\ Len(eng.jobs) = Len(valid)
             /\ \A i \in 1..Len(valid) :
                   /\ eng.jobs[i].id = ToString(valid[i].id)
                   /\ eng.jobs[i].description = valid[i].description
                   /\ eng.jobs[i].category =
                        IF valid[i].category = "absent" THEN "general" ELSE valid[i].category
        ELSE obs.d.kind = "json" => (Unbuilt(eng) /\ obs.load.exc = "none")

C10_Witness ==
    /\ obs.op = "refresh" /\ obs.d.kind = "json" /\ obs.d.shape = "jobs"
    /\ Len(obs.d.entries) = 2 /\ ~ ValidEntry(obs.d.entries[1])
    /\ Len(eng.jobs) = 1 /\ eng.jobs[1].category = "general"
    /\ obs.load.prev = "built"

(***************************************************************************)
(* The engine used by two threads: one calls refresh(), the other          *)
(* recommend(), and a thread switch may fall between any two steps.  The   *)
(* class holds no lock.  Each thread makes one call; the dataset file      *)
(* holds valid entries only here.                                          *)
(***************************************************************************)
ConcEntries == {en \in EntryPool : KeepEntry(en) /\ en.description = "text"}

ConcDatasets ==
    { [kind |-> "missing", shape |-> "none", entries |-> <<>>] }
    \cup { [kind |-> "json", shape |-> "list", entries |-> es] :
              es \in UNION {[1..n -> ConcEntries] : n \in 1..MaxEntries} }

InitConc ==
    /\ \E d \in ConcDatasets : eng = Construct(d).e
    /\ obs = [ op |-> "idle", d |-> NoDataset,
               load |-> [kind |-> "none", prev |-> "unbuilt", exc |-> "none"],
               k |-> NoCall ]
    /\ IdleThreads /\ IdleStore /\ IdleScorer

RefreshBegin ==
    /\ rthr.at = "idle"
    /\ \E d \in ConcDatasets : rthr' = [t |-> StartCall(FALSE), d |-> d, at |-> "running"]
    /\ UNCHANGED <<eng, obs, kthr, resumes, analyses, reqs, sin, sout>>

RefreshAdvance ==
    /\ rthr.at = "running" /\ ~ Finished(rthr.t)
    /\ LET n == RefreshStep(eng, rthr.t, rthr.d)
       IN  eng' = n.e /\ rthr' = [rthr EXCEPT !.t = n.t]
    /\ UNCHANGED <<obs, kthr, resumes, analyses, reqs, sin, sout>>

RefreshEnd ==
    /\ rthr.at = "running" /\ Finished(rthr.t)
    /\ rthr' = [rthr EXCEPT !.at = "returned"]
    /\ UNCHANGED <<eng, obs, kthr, resumes, analyses, reqs, sin, sout>>

RecommendBegin ==
    /\ kthr.at = "idle"
    /\ kthr' = [k |-> StartRecommend(<<"d", "e", "v">>, MaxTopN), at |-> "running"]
    /\ UNCHANGED <<eng, obs, rthr, resumes, analyses, reqs, sin, sout>>

RecommendAdvance ==
    /\ kthr.at = "running" /\ ~ RecFinished(kthr.k)
    /\ \E o \in Oracles(Rows(eng), Classes(eng), {Len(kthr.k.combined)}) :
          LET k == RecommendStep(eng, kthr.k, o)
          IN  k.pc # "infeasible" /\ kthr' = [kthr EXCEPT !.k = k]
    /\ UNCHANGED <<eng, obs, rthr, resumes, analyses, reqs, sin, sout>>

RecommendEnd ==
    /\ kthr.at = "running" /\ RecFinished(kthr.k)
    /\ kthr' = [kthr EXCEPT !.at = "returned"]
    /\ UNCHANGED <<eng, obs, rthr, resumes, analyses, reqs, sin, sout>>

NextConc ==
    \/ RefreshBegin \/ RefreshAdvance \/ RefreshEnd
    \/ RecommendBegin \/ RecommendAdvance \/ RecommendEnd

SpecConc == InitConc /\ [][NextConc]_vars

\* every value the call read is the field of one engine, Unbuilt or fully built
ReadsOfOneBuild(seen) ==
    \E J \in seen.jobs :
        /\ seen.jobs = {J}
        /\ seen.vectorizer \subseteq {BuildOf(J).vectorizer}
        /\ seen.job_matrix \subseteq {BuildOf(J).job_matrix}
        /\ seen.classifier \subseteq {BuildOf(J).classifier}
        /\ seen.index_to_category \subseteq {BuildOf(J).index_to_category}

\* C5: a recommend call running while refresh() runs reads the jobs list, the
\* vectorizer, the job matrix, the category map and the classifier of one completed
\* build.
C5_NoTornRead ==
    kthr.at = "returned" => ReadsOfOneBuild(kthr.k.seen)

(***************************************************************************)
(* The analysis store and the two routes that write is_best:               *)
(* POST /mark_best and POST /analyses/bulk (backend/api_routes.py).        *)
(*                                                                         *)
(* The handlers are coroutines on one event loop: a handler runs alone     *)
(* from one await to the next, and every database call is an await, so     *)
(* each action below is one database call of one request with the code     *)
(* around it.  db.resumes holds the resumes uploaded so far (their ids);   *)
(* an analysis record is [id, resume_id, is_best], and db.analyses lists   *)
(* them in insertion order, the order in which update_one looks for a      *)
(* match.                                                                  *)
(***************************************************************************)
ResumeIds == {1, 2}

\* a resume_id no analysis record carries
UnknownId == 0

\* the composite scores of _compute_composite_score, as ranks
BulkScores == {1, 2}

Slots == 1..MaxRequests

IdleRequest ==
    [ kind |-> "idle", pc |-> "idle", rid |-> UnknownId, ids |-> {}, auto |-> FALSE,
      todo |-> <<>>, entries |-> <<>>, failures |-> <<>>, best |-> None, status |-> 0 ]

\* update_many({"is_best": True}, {"$set": {"is_best": False}})
ClearBest(as) == [i \in 1..Len(as) |-> [as[i] EXCEPT !.is_best = FALSE]]

\* the first record matching {"resume_id": rid}, 0 when there is none
FirstOfResume(as, rid) ==
    IF \E i \in 1..Len(as) : as[i].resume_id = rid
    THEN CHOOSE i \in 1..Len(as) :
            as[i].resume_id = rid /\ \A j \in 1..(i - 1) : as[j].resume_id # rid
    ELSE 0

\* the record matching {"_id": id}, 0 when there is none
IndexOfId(as, id) ==
    IF \E i \in 1..Len(as) : as[i].id = id
    THEN CHOOSE i \in 1..Len(as) : as[i].id = id
    ELSE 0

\* the _id of the next analysis record
NextAnalysisId(as) ==
    IF as = <<>> THEN 1 ELSE 1 + (CHOOSE m \in {as[i].id : i \in 1..Len(as)} :
                                     \A i \in 1..Len(as) : as[i].id <= m)

\* update_one(filter, {"$set": {"is_best": True}}) on the record at index i
SetBestAt(as, i) == IF i = 0 THEN as ELSE [as EXCEPT ![i].is_best = TRUE]

\* a set of resume ids as the list find() returns, in insertion order
RECURSIVE AsList(_)
AsList(S) ==
    IF S = {} THEN <<>>
    ELSE LET m == CHOOSE x \in S : \A y \in S : x <= y IN <<m>> \o AsList(S \ {m})

InitStore ==
    /\ resumes = ResumeIds
    /\ analyses = <<>>
    /\ reqs = [s \in Slots |-> IdleRequest]
    /\ eng = EmptyEngine
    /\ obs = [ op |-> "idle", d |-> NoDataset,
               load |-> [kind |-> "none", prev |-> "unbuilt", exc |-> "none"],
               k |-> NoCall ]
    /\ IdleThreads /\ IdleScorer

StoreFrame == UNCHANGED <<eng, obs, rthr, kthr, sin, sout>>

\* POST /mark_best?resume_id=rid arrives
MarkBestBegin(s) ==
    /\ reqs[s].kind = "idle"
    /\ \E rid \in ResumeIds \cup {UnknownId} :
          reqs' = [reqs EXCEPT ![s] = [IdleRequest EXCEPT !.kind = "mark_best",
                                                          !.pc = "clear", !.rid = rid]]
    /\ UNCHANGED <<resumes, analyses>> /\ StoreFrame

\* lines 526-529: await db.analyses.update_many(...)
MarkBestClear(s) ==
    /\ reqs[s].kind = "mark_best" /\ reqs[s].pc = "clear"
    /\ analyses' = ClearBest(analyses)
    /\ reqs' = [reqs EXCEPT ![s].pc = "set"]
    /\ UNCHANGED resumes /\ StoreFrame

\* lines 532-543: await db.analyses.update_one(...), then 404 or 200
MarkBestSet(s) ==
    /\ reqs[s].kind = "mark_best" /\ reqs[s].pc = "set"
    /\ LET i == FirstOfResume(analyses, reqs[s].rid)
       IN  /\ analyses' = SetBestAt(analyses, i)
           /\ reqs' = [reqs EXCEPT ![s].pc = "done",
                                   ![s].status = IF i = 0 THEN 404 ELSE 200]
    /\ UNCHANGED resumes /\ StoreFrame

\* POST /analyses/bulk arrives; ids = {} stands for no resume_ids (all resumes)
BulkBegin(s) ==
    /\ reqs[s].kind = "idle"
    /\ \E ids \in SUBSET ResumeIds, auto \in BOOLEAN :
          reqs' = [reqs EXCEPT ![s] = [IdleRequest EXCEPT !.kind = "bulk", !.pc = "find",
                                                          !.ids = ids, !.auto = auto]]
    /\ UNCHANGED <<resumes, analyses>> /\ StoreFrame

\* lines 115-135: await db.resumes.find(query)
BulkFind(s) ==
    /\ reqs[s].kind = "bulk" /\ reqs[s].pc = "find"
    /\ LET found == IF reqs[s].ids = {} THEN resumes ELSE resumes \cap reqs[s].ids
       IN  reqs' = IF found = {}
                   THEN [reqs EXCEPT ![s].pc = "done", ![s].status = 404]
                   ELSE [reqs EXCEPT ![s].pc = "analyze", ![s].todo = AsList(found)]
    /\ UNCHANGED <<resumes, analyses>> /\ StoreFrame

\* (mutant) the comparison of line 158 is >= instead of >
BetterOrEqualToBest(best, entry) == best = None \/ entry.final_score >= best[1].final_score

\* line 158: the first entry with the highest final_score so far
BetterThanBest(best, entry) == best = None \/ entry.final_score > best[1].final_score

\* lines 137-159, one iteration: _create_analysis_record inserts the record with
\* is_best False, or an exception of the call is caught and listed as a failure
BulkAnalyze(s) ==
    /\ reqs[s].kind = "bulk" /\ reqs[s].pc = "analyze" /\ reqs[s].todo # <<>>
    /\ \/ /\ Len(analyses) < MaxAnalyses
          /\ \E score \in BulkScores :
                LET id == NextAnalysisId(analyses)
                    entry == [analysis_id |-> id, resume_id |-> Head(reqs[s].todo),
                              final_score |-> score]
                IN  /\ analyses' = Append(analyses, [id |-> id,
                                                     resume_id |-> Head(reqs[s].todo),
                                                     is_best |-> FALSE])
                    /\ reqs' = [reqs EXCEPT
                                  ![s].todo = Tail(@),
                                  ![s].entries = Append(@, entry),
                                  ![s].best = IF BetterThanBest(@, entry) THEN Some(entry) ELSE @]
       \/ /\ reqs' = [reqs EXCEPT ![s].todo = Tail(@),
                                    ![s].failures = Append(@, Head(reqs[s].todo))]
          /\ UNCHANGED analyses
    /\ UNCHANGED resumes /\ StoreFrame

\* lines 161-165: 500 when nothing was analyzed; with auto_mark_best,
\* await db.analyses.update_many(...)
BulkClear(s) ==
    /\ reqs[s].kind = "bulk" /\ reqs[s].pc = "analyze" /\ reqs[s].todo = <<>>
    /\ IF reqs[s].entries = <<>>
       THEN /\ reqs' = [reqs EXCEPT ![s].pc = "done", ![s].status = 500]
            /\ UNCHANGED analyses
       ELSE IF reqs[s].auto /\ reqs[s].best # None
       THEN /\ analyses' = ClearBest(analyses)
            /\ reqs' = [reqs EXCEPT ![s].pc = "set"]
       ELSE /\ reqs' = [reqs EXCEPT ![s].pc = "done", ![s].status = 200]
            /\ UNCHANGED analyses
    /\ UNCHANGED resumes /\ StoreFrame

\* lines 166-187: await db.analyses.update_one({"_id": ...}, ...), then 200
BulkSet(s) ==
    /\ reqs[s].kind = "bulk" /\ reqs[s].pc = "set"
    /\ analyses' = SetBestAt(analyses, IndexOfId(analyses, reqs[s].best[1].analysis_id))
    /\ reqs' = [reqs EXCEPT ![s].pc = "done", ![s].status = 200]
    /\ UNCHANGED resumes /\ StoreFrame

\* the response is sent
Respond(s) ==
    /\ reqs[s].pc = "done"
    /\ reqs' = [reqs EXCEPT ![s] = IdleRequest]
    /\ UNCHANGED <<resumes, analyses>> /\ StoreFrame

NextStore ==
    \E s \in Slots :
        \/ MarkBestBegin(s) \/ MarkBestClear(s) \/ MarkBestSet(s)
        \/ BulkBegin(s) \/ BulkFind(s) \/ BulkAnalyze(s) \/ BulkClear(s) \/ BulkSet(s)
        \/ Respond(s)

SpecStore == InitStore /\ [][NextStore]_vars

BestRecords == {i \in 1..Len(analyses) : analyses[i].is_best}

\* C1: whatever the interleaving of mark_best and bulk requests with auto_mark_best,
\* at most one analysis record has is_best = true.
C1_AtMostOneBest == Cardinality(BestRecords) <= 1

(***************************************************************************)
(* The component scores of a resume, backend/scorer.py.                    *)
(*                                                                         *)
(* A str is the sequence of its characters, a list a sequence; the bullet  *)
(* and the en dash are written "U+2022" and "U+2013".  The optional        *)
(* job_keywords is None or a list, and the code tests it only              *)
(* with "not job_keywords", which None and the empty list answer alike.    *)
(* experience_years is counted in tenths of a year.  A score is a fraction *)
(* [num, den] with den > 0.  The code computes in binary floating point;   *)
(* every operation is correctly rounded, hence monotonic, and 0, 50, 100   *)
(* are floats, so a float result lies in [0, 100] exactly when the         *)
(* fraction does.                                                          *)
(***************************************************************************)
\* the skills, job keywords and education entries a call passes at most
MaxSkills == 2
MaxKeywords == 1
MaxDegrees == 2

Frac(n, d) == [num |-> n, den |-> d]
Whole(n) == Frac(n, 1)
Leq(a, b) == a.num * b.den <= b.num * a.den
Less(a, b) == a.num * b.den < b.num * a.den
Plus(a, b) == Frac(a.num * b.den + b.num * a.den, a.den * b.den)
MinOf(a, b) == IF Leq(b, a) THEN b ELSE a
MaxOf(a, b) == IF Leq(a, b) THEN b ELSE a

UpperCase ==
    << "A", "B", "C", "D", "E", "F", "G", "H", "I", "J", "K", "L", "M",
       "N", "O", "P", "Q", "R", "S", "T", "U", "V", "W", "X", "Y", "Z" >>
LowerCase ==
    << "a", "b", "c", "d", "e", "f", "g", "h", "i", "j", "k", "l", "m",
       "n", "o", "p", "q", "r", "s", "t", "u", "v", "w", "x", "y", "z" >>

Digits == <<"0", "1", "2", "3", "4", "5", "6", "7", "8", "9">>

IsDigit(c) == \E i \in 1..10 : Digits[i] = c

\* int(c) of one digit
DigitValue(c) == (CHOOSE i \in 1..10 : Digits[i] = c) - 1

\* str.lower(), character by character
ToLower ==
    [c \in {UpperCase[i] : i \in 1..26} |-> LowerCase[CHOOSE i \in 1..26 : UpperCase[i] = c]]

LowerChar(c) == IF c \in DOMAIN ToLower THEN ToLower[c] ELSE c

lower(s) == [i \in 1..Len(s) |-> LowerChar(s[i])]

\* t occurs in s at the positions i+1 .. i+Len(t)
OccursAt(s, t, i) == i + Len(t) <= Len(s) /\ \A j \in 1..Len(t) : s[i + j] = t[j]

\* Python's "t in s" on strings
Contains(s, t) == \E i \in 0..Len(s) : OccursAt(s, t, i)

\* any(term in text for term in terms)
ContainsAny(s, terms) == \E t \in terms : Contains(s, t)

\* s.count(t): the occurrences of t found from left to right without overlap
RECURSIVE CountFrom(_, _, _)
CountFrom(s, t, i) ==
    IF \E p \in i..Len(s) : OccursAt(s, t, p)
    THEN LET p == CHOOSE q \in i..Len(s) :
                     OccursAt(s, t, q) /\ \A r \in i..(q - 1) : ~OccursAt(s, t, r)
         IN  IF t = <<>> THEN Len(s) + 1 - i
             ELSE 1 + CountFrom(s, t, p + Len(t))
    ELSE 0

count(s, t) == CountFrom(s, t, 0)

\* len(s.split()): the maximal runs of characters that are not whitespace
WordCount(s) ==
    Cardinality({ i \in 1..Len(s) :
                    s[i] \notin Whitespace /\ (i = 1 \/ s[i - 1] \in Whitespace) })

\* " ".join(list)
RECURSIVE JoinSpace(_)
JoinSpace(list) ==
    IF list = <<>> THEN <<>>
    ELSE IF Len(list) = 1 THEN list[1]
    ELSE list[1] \o <<" ">> \o JoinSpace(Tail(list))

\* int(s) of a string of digits
RECURSIVE ToInt(_)
ToInt(s) ==
    IF s = <<>> THEN 0 ELSE 10 * ToInt(SubSeq(s, 1, Len(s) - 1)) + DigitValue(s[Len(s)])

\* lines 43-50: the matching skills over the number of job keywords
MatchRatio(skills, job_keywords) ==
    LET skills_lower == [i \in 1..Len(skills) |-> lower(skills[i])]
        keywords_lower == [i \in 1..Len(job_keywords) |-> lower(job_keywords[i])]
        matches == Cardinality({ i \in 1..Len(skills_lower) :
                       \E j \in 1..Len(keywords_lower) :
                          \/ Contains(skills_lower[i], keywords_lower[j])
                          \/ Contains(keywords_lower[j], skills_lower[i]) })
    IN  Frac(matches, Len(keywords_lower))

\* (mutant) the min(..., 100) of lines 37 and 51 is forgotten
SkillMatchWithoutMin(skills, job_keywords) ==
    IF job_keywords = <<>> THEN Whole(Len(skills) * 5)
    ELSE IF skills = <<>> THEN Whole(0)
    ELSE LET match_ratio == MatchRatio(skills, job_keywords)
         IN  Frac(match_ratio.num * 100, match_ratio.den)

\* (mutant) without job keywords every skill counts 10
SkillMatchTenPerSkill(skills, job_keywords) ==
    IF job_keywords = <<>> THEN MinOf(Whole(Len(skills) * 10), Whole(100))
    ELSE IF skills = <<>> THEN Whole(0)
    ELSE LET match_ratio == MatchRatio(skills, job_keywords)
         IN  MinOf(Frac(match_ratio.num * 100, match_ratio.den), Whole(100))

\* lines 33-51
calculate_skill_match_score(skills, job_keywords) ==
    IF job_keywords = <<>> THEN MinOf(Whole(Len(skills) * 5), Whole(100))
    ELSE IF skills = <<>> THEN Whole(0)
    ELSE LET match_ratio == MatchRatio(skills, job_keywords)
         IN  MinOf(Frac(match_ratio.num * 100, match_ratio.den), Whole(100))

\* (mutant) the boundaries belong to the lower step: <= for <
ExperienceScoreBoundaryBelow(years) ==
    IF years = 0 THEN Whole(20)
    ELSE IF years <= 10 THEN Whole(40)
    ELSE IF years <= 20 THEN Whole(60)
    ELSE IF years <= 50 THEN Whole(80)
    ELSE IF years <= 100 THEN Whole(90)
    ELSE Whole(100)

\* lines 53-66, years in tenths
calculate_experience_score(years) ==
    IF years = 0 THEN Whole(20)
    ELSE IF years < 10 THEN Whole(40)
    ELSE IF years < 20 THEN Whole(60)
    ELSE IF years < 50 THEN Whole(80)
    ELSE IF years < 100 THEN Whole(90)
    ELSE Whole(100)

DoctorateTerms == { <<"p", "h", "d">>, <<"d", "o", "c", "t", "o", "r", "a", "t", "e">>, <<"p", "h", ".", "d">> }
MasterTerms == { <<"m", "a", "s", "t", "e", "r">>, <<"m", "b", "a">>, <<"m", "s">>, <<"m", "a">>, <<"m", "s", "c">> }
BachelorTerms == { <<"b", "a", "c", "h", "e", "l", "o", "r">>, <<"b", "s">>, <<"b", "a">>, <<"b", "s", "c">> }

\* lines 68-89
calculate_education_score(education) ==
    IF education = <<>> THEN Whole(30)
    ELSE LET text == lower(JoinSpace(education))
             tier == IF ContainsAny(text, DoctorateTerms) THEN 30
                     ELSE IF ContainsAny(text, MasterTerms) THEN 20
                     ELSE IF ContainsAny(text, BachelorTerms) THEN 10
                     ELSE 0
             several == IF Len(education) > 1 THEN 10 ELSE 0
         IN  MinOf(Whole(50 + tier + several), Whole(100))

Sections ==
    { <<"e", "x", "p", "e", "r", "i", "e", "n", "c", "e">>,
      <<"e", "d", "u", "c", "a", "t", "i", "o", "n">>,
      <<"s", "k", "i", "l", "l", "s">>,
      <<"s", "u", "m", "m", "a", "r", "y">>,
      <<"o", "b", "j", "e", "c", "t", "i", "v", "e">>,
      <<"c", "o", "n", "t", "a", "c", "t">> }

\* re.search(r'[U+2022\-\*]\s+', text), the first character being the bullet
HasBullet(text) ==
    \E i \in 1..(Len(text) - 1) : text[i] \in {"U+2022", "-", "*"} /\ text[i + 1] \in Whitespace

\* re.search(r'\d+\.\s+', text)
HasNumbering(text) ==
    \E i \in 2..(Len(text) - 1) :
        IsDigit(text[i - 1]) /\ text[i] = "." /\ text[i + 1] \in Whitespace

\* lines 93-111: the score before the clamp of line 113
UnclampedFormat(text) ==
    LET text_lower == lower(text)
        found_sections == Cardinality({ section \in Sections : Contains(text_lower, section) })
        word_count == WordCount(text)
        length == IF 200 <= word_count /\ word_count <= 2000 THEN 10
                  ELSE IF word_count < 200 THEN -20
                  ELSE -10
        bullets == IF HasBullet(text) \/ HasNumbering(text) THEN 10 ELSE 0
    IN  Plus(Frac(found_sections * 30, Cardinality(Sections)), Whole(50 + length + bullets))

\* lines 91-113
calculate_format_score(text) == MaxOf(Whole(0), MinOf(UnclampedFormat(text), Whole(100)))

RECURSIVE SumOfCounts(_, _)
SumOfCounts(text, keywords) ==
    IF keywords = <<>> THEN 0
    ELSE count(text, Head(keywords)) + SumOfCounts(text, Tail(keywords))

\* lines 115-141
calculate_keyword_density(text, keywords) ==
    IF keywords = <<>> THEN Whole(50)
    ELSE LET text_lower == lower(text)
             keywords_lower == [i \in 1..Len(keywords) |-> lower(keywords[i])]
             total_occurrences == SumOfCounts(text_lower, keywords_lower)
             word_count == WordCount(text)
         IN  IF word_count = 0 THEN Whole(0)
             ELSE LET density == Frac(total_occurrences * 100, word_count)
                  IN  IF Leq(Whole(1), density) /\ Leq(density, Whole(3)) THEN Whole(100)
                      ELSE IF \/ Leq(Frac(1, 2), density) /\ Less(density, Whole(1))
                              \/ Less(Whole(3), density) /\ Leq(density, Whole(5))
                      THEN Whole(80)
                      ELSE IF \/ Leq(Frac(1, 10), density) /\ Less(density, Frac(1, 2))
                              \/ Less(Whole(5), density) /\ Leq(density, Whole(7))
                      THEN Whole(60)
                      ELSE Whole(40)

Present == <<"p", "r", "e", "s", "e", "n", "t">>
Current == <<"c", "u", "r", "r", "e", "n", "t">>

\* the first position from i on that holds no whitespace, Len(text) + 1 if none
SkipWhitespace(text, i) ==
    CHOOSE j \in i..(Len(text) + 1) :
        /\ j = Len(text) + 1 \/ text[j] \notin Whitespace
        /\ \A k \in i..(j - 1) : text[k] \in Whitespace

FourDigitsAt(text, i) == i + 3 <= Len(text) /\ \A j \in i..(i + 3) : IsDigit(text[j])

\* the word occurs at position i, whatever the case of the letters (re.IGNORECASE)
WordAt(text, i, word) ==
    /\ i + Len(word) - 1 <= Len(text)
    /\ \A j \in 1..Len(word) : LowerChar(text[i + j - 1]) = word[j]

\* line 146: a match of (\d{4})\s*[-U+2013]\s*(\d{4}|present|current) that starts at
\* position i: its two groups and the position after it, or None
DateMatchAt(text, i) ==
    IF ~FourDigitsAt(text, i) THEN None
    ELSE LET dash == SkipWhitespace(text, i + 4)
         IN  IF dash > Len(text) \/ text[dash] \notin {"-", "U+2013"} THEN None
             ELSE LET e == SkipWhitespace(text, dash + 1)
                      start == SubSeq(text, i, i + 3)
                  IN  IF FourDigitsAt(text, e)
                      THEN Some([start |-> start, end |-> SubSeq(text, e, e + 3), next |-> e + 4])
                      ELSE IF WordAt(text, e, Present)
                      THEN Some([start |-> start, end |-> SubSeq(text, e, e + 6), next |-> e + 7])
                      ELSE IF WordAt(text, e, Current)
                      THEN Some([start |-> start, end |-> SubSeq(text, e, e + 6), next |-> e + 7])
                      ELSE None

\* re.findall from position i on: the matches from left to right, without overlap
RECURSIVE FindAllFrom(_, _)
FindAllFrom(text, i) ==
    IF \E p \in i..Len(text) : DateMatchAt(text, p) # None
    THEN LET p == CHOOSE q \in i..Len(text) :
                     DateMatchAt(text, q) # None /\ \A r \in i..(q - 1) : DateMatchAt(text, r) = None
             m == DateMatchAt(text, p)[1]
         IN  <<[start |-> m.start, end |-> m.end]>> \o FindAllFrom(text, m.next)
    ELSE <<>>

\* lines 158-167: the range counts as valid
ValidRange(date) ==
    LET start_year == ToInt(date.start)
    IN  IF lower(date.end) \in {Present, Current} THEN TRUE
        ELSE start_year <= ToInt(date.end)

\* lines 143-170: the score before the min of line 172
UnclampedTimeline(text) ==
    LET dates == FindAllFrom(text, 1)
    IN  IF dates = <<>> THEN Whole(30)
        ELSE LET first5 == SubSeq(dates, 1, Min(Len(dates), 5))
                 valid_ranges == Cardinality({ i \in 1..Len(first5) : ValidRange(first5[i]) })
             IN  IF valid_ranges > 0
                 THEN Plus(Whole(50), Frac(valid_ranges * 50, Min(Len(dates), 5)))
                 ELSE Whole(50)

\* lines 143-172
calculate_timeline_score(text) == MinOf(UnclampedTimeline(text), Whole(100))

\* models.py lines 11-17: Field(..., ge=0, le=100)
InRange(score) == Leq(Whole(0), score) /\ Leq(score, Whole(100))

ScoreNames == {"skill_match", "experience", "education", "format", "keyword_density", "timeline"}

\* lines 8-31: the six scores, or the ValidationError of ComponentScore(...)
calculate_scores(text, skills, experience_years, education, job_keywords) ==
    LET scores == [ skill_match |-> calculate_skill_match_score(skills, job_keywords),
                    experience |-> calculate_experience_score(experience_years),
                    education |-> calculate_education_score(education),
                    format |-> calculate_format_score(text),
                    keyword_density |-> calculate_keyword_density(text, job_keywords),
                    timeline |-> calculate_timeline_score(text) ]
    IN  IF \A name \in ScoreNames : InRange(scores[name])
        THEN [raised |-> "none", scores |-> scores]
        ELSE [raised |-> "ValidationError", scores |-> scores]

\* n further words, one character each
Filler(n) == [i \in 1..(2 * n) |-> IF i % 2 = 1 THEN " " ELSE "#"]

\* nine words: the six section titles, a bullet, a keyword and a date range
FullResume ==
    << "E", "x", "p", "e", "r", "i", "e", "n", "c", "e", " ", "E", "d", "u", "c", "a",
       "t", "i", "o", "n", " ", "S", "k", "i", "l", "l", "s", " ", "S", "u", "m", "m",
       "a", "r", "y", " ", "O", "b", "j", "e", "c", "t", "i", "v", "e", " ", "C", "o",
       "n", "t", "a", "c", "t", " ", "U+2022", " ", "p", "y", "t", "h", "o", "n", " ", "2",
       "0", "1", "5", "-", "2", "0", "2", "0" >>

TwoWords == <<"S", "k", "i", "l", "l", "s", ":", " ", "p", "y", "t", "h", "o", "n">>

\* the resume texts scored: nothing, two words, date ranges in order and out of
\* order, a numbered line, six date ranges, and full resumes of 50, 199, 200 and
\* 2001 words
ScoredTexts ==
    { << >>,
      TwoWords,
      <<"2", "0", "1", "9", " ", "-", " ", "2", "0", "2", "1", " ", "2", "0", "2", "0", "-", "P", "r", "e", "s", "e", "n", "t", " ", "2", "0", "2", "2", "U+2013", "2", "0", "2", "0">>,
      <<"1", ".", " ", "s", "q", "l", " ", "2", "0", "1", "8", "-", "2", "0", "1", "6">>,
      <<"2", "0", "0", "1", "-", "2", "0", "0", "2", " ", "2", "0", "0", "3", "-", "2", "0", "0", "4", " ", "2", "0", "0", "5", "-", "2", "0", "0", "6", " ", "2", "0", "0", "7", "-", "2", "0", "0", "8", " ", "2", "0", "0", "9", "-", "2", "0", "1", "0", " ", "2", "0", "1", "2", "-", "2", "0", "1", "1">>,
      FullResume \o Filler(41),
      FullResume \o Filler(190),
      FullResume \o Filler(191),
      FullResume \o Filler(1992) }

SkillPool == { <<"P", "y", "t", "h", "o", "n">>, <<"S", "Q", "L">> }
KeywordPool == { <<"p", "y", "t", "h", "o", "n">>, <<"M", "y", "S", "Q", "L">> }
DegreePool ==
    { <<"P", "h", "D">>,
      <<"B", "a", "c", "h", "e", "l", "o", "r", " ", "o", "f", " ", "A", "r", "t", "s">>,
      <<"D", "i", "p", "l", "o", "m", "a">> }

\* tenths of a year: 0, 0.5, 1, 2, 5 and 10 years
YearsPool == {0, 5, 10, 20, 50, 100}

SeqsUpTo(S, n) == UNION { [1..m -> S] : m \in 0..n }

\* every text with every list of job keywords, and the two-word
\* text with every list of skills, of education entries and of job keywords and
\* every number of years
ScorerInputs ==
    [ text : ScoredTexts,
      skills : {<<>>},
      experience_years : {20},
      education : {<<>>},
      job_keywords : SeqsUpTo(KeywordPool, MaxKeywords) ]
    \cup
    [ text : {TwoWords},
      skills : SeqsUpTo(SkillPool, MaxSkills),
      experience_years : YearsPool,
      education : SeqsUpTo(DegreePool, MaxDegrees),
      job_keywords : SeqsUpTo(KeywordPool, MaxKeywords) ]

InitScore ==
    /\ sin \in { Some(i) : i \in ScorerInputs }
    /\ sout = None
    /\ eng = EmptyEngine
    /\ obs = [ op |-> "idle", d |-> NoDataset,
               load |-> [kind |-> "none", prev |-> "unbuilt", exc |-> "none"],
               k |-> NoCall ]
    /\ IdleThreads /\ IdleStore

\* api_routes.py lines 58-64: calculate_scores(...) on the fields of a resume
CalculateScores ==
    /\ sin # None /\ sout = None
    /\ sout' = Some(calculate_scores(sin[1].text, sin[1].skills, sin[1].experience_years,
                                     sin[1].education, sin[1].job_keywords))
    /\ UNCHANGED <<sin, eng, obs, rthr, kthr, resumes, analyses, reqs>>

NextScore == CalculateScores

SpecScore == InitScore /\ [][NextScore]_vars

\* C2: for every text, skills list, experience_years >= 0, education list and
\* optional job keyword list, calculate_scores returns, and each of its six scores
\* (skill_match, experience, education, format, keyword_density, timeline) lies
\* in [0, 100].
C2_ScoresInRange ==
    sout # None =>
        /\ sout[1].raised = "none"
        /\ \A name \in ScoreNames :
              /\ sout[1].scores[name].den > 0
              /\ 0 <= sout[1].scores[name].num
              /\ sout[1].scores[name].num <= 100 * sout[1].scores[name].den

\* a call with more matching skills than job keywords has returned: the ratio is
\* above 100 before the final min
C2_Witness ==
    /\ sout # None
    /\ sin[1].job_keywords # <<>>
    /\ Less(Whole(100), SkillMatchWithoutMin(sin[1].skills, sin[1].job_keywords))
    /\ sout[1].scores.skill_match = Whole(100)
    /\ sin[1].experience_years > 0

\* two fractions of the same value
SameValue(a, b) == a.num * b.den = b.num * a.den

\* the skills that, in lower case, contain a job keyword or are contained in one
MatchingSkills(skills, job_keywords) ==
    { i \in 1..Len(skills) :
        \E j \in 1..Len(job_keywords) :
           \/ Contains(lower(skills[i]), lower(job_keywords[j]))
           \/ Contains(lower(job_keywords[j]), lower(skills[i])) }

\* C11: with a non-empty job keyword list, skill_match is 0 when there are no skills
\* and otherwise min(100, 100 * m / |skills|), m the number of matching skills: the
\* fraction is taken over the skills, not over the keywords.
C11_SkillMatchOverSkills ==
    (sout # None /\ sin[1].job_keywords # <<>>) =>
        LET skills == sin[1].skills
            m == Cardinality(MatchingSkills(skills, sin[1].job_keywords))
        IN  SameValue(sout[1].scores.skill_match,
                      IF skills = <<>> THEN Whole(0)
                      ELSE MinOf(Frac(100 * m, Len(skills)), Whole(100)))

\* lines 35-50: the skill match before the min of line 37 or of line 51
UnclampedSkillMatch(skills, job_keywords) ==
    IF job_keywords = <<>> THEN Whole(Len(skills) * 5)
    ELSE IF skills = <<>> THEN Whole(0)
    ELSE LET match_ratio == MatchRatio(skills, job_keywords)
         IN  Frac(match_ratio.num * 100, match_ratio.den)

\* lines 70-87: the education score before the min of line 89
UnclampedEducation(education) ==
    IF education = <<>> THEN Whole(30)
    ELSE LET text == lower(JoinSpace(education))
             tier == IF ContainsAny(text, DoctorateTerms) THEN 30
                     ELSE IF ContainsAny(text, MasterTerms) THEN 20
                     ELSE IF ContainsAny(text, BachelorTerms) THEN 10
                     ELSE 0
             several == IF Len(education) > 1 THEN 10 ELSE 0
         IN  Whole(50 + tier + several)

\* C12: in skill_match, education, format and timeline the value computed before
\* the final min/max already lies in [0, 100], so the clamp never changes a result.
C12_ClampNeverTriggered ==
    sout # None =>
        /\ InRange(UnclampedSkillMatch(sin[1].skills, sin[1].job_keywords))
        /\ InRange(UnclampedEducation(sin[1].education))
        /\ InRange(UnclampedFormat(sin[1].text))
        /\ InRange(UnclampedTimeline(sin[1].text))

(***************************************************************************)
(* The text normalisation of a parsed resume, clean_text of                *)
(* backend/parser.py.  In the specifications of single functions, sin is   *)
(* the argument of the call and sout its result.                           *)
(***************************************************************************)
\* the longest raw string cleaned
MaxRawLen == 5

\* \w: a letter, a digit or the underscore
IsWordChar(c) ==
    \/ \E i \in 1..26 : UpperCase[i] = c \/ LowerCase[i] = c
    \/ IsDigit(c)
    \/ c = "_"

\* line 85: the characters outside [^\w\s\.\,\;\:\!\?\-\(\)], which are kept
KeptChar(c) ==
    IsWordChar(c) \/ c \in Whitespace \/ c \in {".", ",", ";", ":", "!", "?", "-", "(", ")"}

\* line 83: re.sub(r'\s+', ' ', text)
RECURSIVE CollapseWhitespace(_)
CollapseWhitespace(text) ==
    IF text = <<>> THEN <<>>
    ELSE IF Head(text) \in Whitespace
    THEN <<" ">> \o CollapseWhitespace(LStrip(text))
    ELSE <<Head(text)>> \o CollapseWhitespace(Tail(text))

\* line 85: re.sub(r'[^\w\s\.\,\;\:\!\?\-\(\)]', '', text)
RemoveSpecial(text) == SelectSeq(text, KeptChar)

\* lines 79-88
clean_text(text) == Strip(RemoveSpecial(CollapseWhitespace(text)))

\* a letter, the two kinds of whitespace, a character off the allow-list and one on it
RawChars == {"a", " ", "\n", "@", "-"}

RawStrings == UNION { [1..n -> RawChars] : n \in 0..MaxRawLen }

InitClean ==
    /\ sin \in { Some(raw) : raw \in RawStrings }
    /\ sout = None
    /\ eng = EmptyEngine
    /\ obs = [ op |-> "idle", d |-> NoDataset,
               load |-> [kind |-> "none", prev |-> "unbuilt", exc |-> "none"],
               k |-> NoCall ]
    /\ IdleThreads /\ IdleStore

\* line 25 of parse_resume: text = clean_text(text)
CleanText ==
    /\ sin # None /\ sout = None
    /\ sout' = Some(clean_text(sin[1]))
    /\ UNCHANGED <<sin, eng, obs, rthr, kthr, resumes, analyses, reqs>>

NextClean == CleanText

SpecClean == InitClean /\ [][NextClean]_vars

\* no two consecutive whitespace characters, allow-listed characters only, no
\* whitespace at either end
NormalForm(text) ==
    /\ \A i \in 1..(Len(text) - 1) : ~(text[i] \in Whitespace /\ text[i + 1] \in Whitespace)
    /\ \A i \in 1..Len(text) : KeptChar(text[i])
    /\ text # <<>> => text[1] \notin Whitespace /\ text[Len(text)] \notin Whitespace

\* C13: for every raw string the output of clean_text is in normal form, and so
\* clean_text(clean_text(x)) = clean_text(x).
C13_CleanTextNormalForm ==
    sout # None => NormalForm(sout[1]) /\ clean_text(sout[1]) = sout[1]

(***************************************************************************)
(* One bulk analysis at a time: the requests of POST /analyses/bulk served *)
(* one after the other, each running from its find() to its response.      *)
(***************************************************************************)
NextBulk ==
    \/ BulkBegin(1) \/ BulkFind(1) \/ BulkAnalyze(1) \/ BulkClear(1) \/ BulkSet(1)
    \/ Respond(1)

SpecBulk == InitStore /\ [][NextBulk]_vars

\* the bulk requests that have built their 200 response
BulkAnswered == { s \in Slots : reqs[s].kind = "bulk" /\ reqs[s].pc = "done" /\ reqs[s].status = 200 }

MaxUploads == 3

\* line 161: threshold = 0.95, in hundredths
DuplicateThreshold == 95

SimLevels == {0, 94, 95, 100}

UploadTexts == {"A", "B"}

\* np.max(similarities)
MaxOfSeq(xs) == CHOOSE m \in Range(xs) : \A x \in Range(xs) : x <= m

\* (mutant) the last index of the maximum
ArgMaxLast(xs) ==
    CHOOSE i \in 1..Len(xs) : xs[i] = MaxOfSeq(xs) /\ \A j \in (i + 1)..Len(xs) : xs[j] # MaxOfSeq(xs)

\* np.argmax(similarities): the first index of the maximum
ArgMax(xs) ==
    CHOOSE i \in 1..Len(xs) : xs[i] = MaxOfSeq(xs) /\ \A j \in 1..(i - 1) : xs[j] # MaxOfSeq(xs)

NotDuplicate == [is_duplicate |-> FALSE, duplicate_of |-> None, raised |-> "none"]

\* (mutant) the exception is raised again
DetectErrorReraised == [is_duplicate |-> FALSE, duplicate_of |-> None, raised |-> "Exception"]

\* lines 169-171: except Exception: return False, None
OnDetectError == NotDuplicate

\* lines 145-171
detect_duplicates(new_text, existing_texts, o) ==
    IF existing_texts = <<>> THEN NotDuplicate
    ELSE IF o.exc # "none" THEN OnDetectError
    ELSE LET similarities == o.sims
             max_similarity == MaxOfSeq(similarities)
         IN  IF max_similarity >= DuplicateThreshold
             THEN [ is_duplicate |-> TRUE,
                    duplicate_of |-> Some(existing_texts[ArgMax(similarities)].id),
                    raised |-> "none" ]
             ELSE NotDuplicate

\* line 362: existing_texts = [(str(r["_id"]), r.get("parsed_text", "")) ...]
ExistingTexts(docs) == [i \in 1..Len(docs) |-> [id |-> docs[i].id, text |-> docs[i].parsed_text]]

\* get_sentence_model(), model.encode or cosine_similarity raises, or none does
DetectFailures == {"none", "load", "encode", "similarity"}

DetectOracles(new_text, existing_texts) ==
    { [exc |-> x, sims |-> sm] :
        x \in DetectFailures,
        sm \in { f \in [1..Len(existing_texts) -> SimLevels] :
                   \A i \in 1..Len(existing_texts) :
                      existing_texts[i].text = new_text => f[i] = 100 } }

InitUpload ==
    /\ resumes = <<>>
    /\ analyses = <<>> /\ reqs = <<>>
    /\ sin = None /\ sout = None
    /\ eng = EmptyEngine
    /\ obs = [ op |-> "idle", d |-> NoDataset,
               load |-> [kind |-> "none", prev |-> "unbuilt", exc |-> "none"],
               k |-> NoCall ]
    /\ IdleThreads

\* lines 360-392, for one file whose parsed text is text: the duplicate check and
\* the insert; lines 400-402 when the check raises
UploadFile ==
    /\ Len(resumes) < MaxUploads
    /\ \E text \in UploadTexts :
          LET existing_texts == ExistingTexts(resumes)
          IN  \E o \in DetectOracles(text, existing_texts) :
                 LET r == detect_duplicates(text, existing_texts, o)
                 IN  /\ sin' = Some([new_text |-> text, existing_texts |-> existing_texts, o |-> o])
                     /\ IF r.raised = "none"
                        THEN /\ resumes' = Append(resumes,
                                     [ id |-> Len(resumes) + 1, parsed_text |-> text,
                                       is_duplicate |-> r.is_duplicate,
                                       duplicate_of |-> r.duplicate_of ])
                             /\ sout' = Some([result |-> r, status |-> 200])
                        ELSE /\ UNCHANGED resumes
                             /\ sout' = Some([result |-> r, status |-> 500])
    /\ UNCHANGED <<eng, obs, rthr, kthr, analyses, reqs>>

NextUpload == UploadFile

SpecUpload == InitUpload /\ [][NextUpload]_vars

\* the duplicate check of the last upload ran without an exception of the libraries
Compared == sout # None /\ sin[1].o.exc = "none"

\* C15: is_duplicate is true iff the corpus is non-empty and the maximum similarity
\* is >= 0.95; then duplicate_of is the id of the first corpus entry with the
\* maximum, and otherwise duplicate_of is absent.
C15_DuplicateIffMaxAtThreshold ==
    Compared =>
        LET corpus == sin[1].existing_texts
            sims == sin[1].o.sims
            r == sout[1].result
            above == corpus # <<>> /\ \E i \in 1..Len(corpus) : sims[i] >= 95
        IN  /\ r.is_duplicate <=> above
            /\ above =>
                  \E i \in 1..Len(corpus) :
                     /\ r.duplicate_of = Some(corpus[i].id)
                     /\ \A j \in 1..Len(corpus) : sims[j] <= sims[i]
                     /\ \A j \in 1..(i - 1) : sims[j] < sims[i]
            /\ ~above => r.duplicate_of = None

\* two corpus entries share the maximum similarity, which is at the threshold or above
C15_Witness ==
    /\ Compared
    /\ Len(sin[1].existing_texts) = 2
    /\ sin[1].o.sims[1] = sin[1].o.sims[2]
    /\ sin[1].o.sims[1] >= 95
    /\ sout[1].result.duplicate_of = Some(sin[1].existing_texts[1].id)

\* the sentence model was unavailable, or the embedding or the similarity failed,
\* in the duplicate check of the last upload
DetectFailed == sout # None /\ sin[1].existing_texts # <<>> /\ sin[1].o.exc # "none"

\* C16: when the embedding model is unavailable or the embedding or similarity
\* computation fails, detect_duplicates returns (false, none) and does not raise,
\* and the upload of that resume completes.
C16_DetectFailureIsNotDuplicate ==
    DetectFailed =>
        /\ sout[1].result = [is_duplicate |-> FALSE, duplicate_of |-> None, raised |-> "none"]
        /\ sout[1].status = 200
        /\ resumes # <<>>
        /\ resumes[Len(resumes)].parsed_text = sin[1].new_text
        /\ resumes[Len(resumes)].is_duplicate = FALSE
        /\ resumes[Len(resumes)].duplicate_of = None

\* the embedding failed for a resume whose text is already in the corpus
C16_Witness ==
    /\ DetectFailed
    /\ sin[1].o.exc = "encode"
    /\ \E i \in 1..Len(sin[1].existing_texts) : sin[1].existing_texts[i].text = sin[1].new_text
    /\ Len(resumes) = Len(sin[1].existing_texts) + 1

(***************************************************************************)
(* The external analysis with retries, analyze_with_gemini of              *)
(* backend/gemini_service.py.                                              *)
(*                                                                         *)
(* sin is the call: whether GEMINI_API_KEY is set, and max_retries.  sout  *)
(* is its progress: pc, the outcome of each attempt made (log), last_error *)
(* and the analysis returned.  An analysis is [ats_score,                  *)
(* match_percentage, weaknesses].  What the backend does in one attempt is *)
(* an oracle o: o.models[i] is what send_prompt_to_model does for the i-th *)
(* candidate model, o.response how the text it returns parses, o.data the  *)
(* analysis parsed from it.  The handler sleeps between attempts; the      *)
(* delay is no part of the state.                                          *)
(***************************************************************************)
\* the largest max_retries a caller passes (the default is 3, line 226)
MaxRetries == 3

\* lines 247-256: settings.GEMINI_MODEL and the three fallbacks, without repetition
NumCandidates == 3

\* send_prompt_to_model returns text, or raises a 404 / "not found" error, a rate
\* limit error or another error
ModelOutcomes == {"text", "not_found", "rate_limit", "error"}

\* lines 298-312: the text parses into a GeminiAnalysis, is no JSON, or lacks a
\* required field
ResponseKinds == {"valid", "unparsable", "invalid"}

ParsedAnalyses ==
    { [ats_score |-> 80, match_percentage |-> 60, weaknesses |-> <<>>],
      [ats_score |-> 70, match_percentage |-> 70, weaknesses |-> <<>>] }

AttemptOracles == [models : [1..NumCandidates -> ModelOutcomes], response : ResponseKinds, data : ParsedAnalyses]

\* lines 230-238
DefaultWithoutKey ==
    [ats_score |-> 70, match_percentage |-> 70, weaknesses |-> <<"Gemini API key not configured">>]

\* lines 332-340
DefaultAfterRetries ==
    [ats_score |-> 70, match_percentage |-> 70, weaknesses |-> <<"Analysis failed after max_retries attempts">>]

\* lines 275-295: the candidate models in turn, up to the first that is not
\* "404 / not found"; 0 when every candidate is
FirstResponding(models) ==
    IF \A i \in 1..NumCandidates : models[i] = "not_found" THEN 0
    ELSE CHOOSE i \in 1..NumCandidates :
            models[i] # "not_found" /\ \A j \in 1..(i - 1) : models[j] = "not_found"

\* lines 243-315, the body of the try: the analysis parsed, or the exception raised
RunAttempt(o) ==
    LET i == FirstResponding(o.models)
    IN  IF i = 0 THEN [error |-> "not_found", data |-> None]
        ELSE IF o.models[i] # "text" THEN [error |-> o.models[i], data |-> None]
        ELSE IF o.response # "valid" THEN [error |-> o.response, data |-> None]
        ELSE [error |-> "none", data |-> Some(o.data)]

\* (mutant) the handler catches rate limit errors only
CaughtIfRateLimit(error) == error = "rate_limit"

\* line 317: except Exception
Caught(error) == TRUE

GeminiCalls == [api_key : BOOLEAN, max_retries : 0..MaxRetries]

InitGemini ==
    /\ sin \in { Some(c) : c \in GeminiCalls }
    /\ sout = Some([pc |-> "start", log |-> <<>>, last_error |-> "none", result |-> None])
    /\ eng = EmptyEngine
    /\ obs = [ op |-> "idle", d |-> NoDataset,
               load |-> [kind |-> "none", prev |-> "unbuilt", exc |-> "none"],
               k |-> NoCall ]
    /\ IdleThreads /\ IdleStore

GeminiFrame == UNCHANGED <<sin, eng, obs, rthr, kthr, resumes, analyses, reqs>>

\* lines 228-240
GeminiStart ==
    /\ sout[1].pc = "start"
    /\ sout' = IF sin[1].api_key
               THEN Some([sout[1] EXCEPT !.pc = "loop"])
               ELSE Some([sout[1] EXCEPT !.pc = "returned", !.result = Some(DefaultWithoutKey)])
    /\ GeminiFrame

\* lines 242-328: one iteration of for attempt in range(max_retries)
GeminiAttempt ==
    /\ sout[1].pc = "loop" /\ Len(sout[1].log) < sin[1].max_retries
    /\ \E o \in AttemptOracles :
          LET a == RunAttempt(o)
              log == Append(sout[1].log, a)
          IN  sout' = IF a.error = "none"
                      THEN Some([sout[1] EXCEPT !.pc = "returned", !.log = log, !.result = a.data])
                      ELSE IF Caught(a.error)
                      THEN Some([sout[1] EXCEPT !.log = log, !.last_error = a.error])
                      ELSE Some([sout[1] EXCEPT !.pc = "raised", !.log = log])
    /\ GeminiFrame

\* lines 330-340: every attempt failed
GeminiExhausted ==
    /\ sout[1].pc = "loop" /\ Len(sout[1].log) >= sin[1].max_retries
    /\ sout' = Some([sout[1] EXCEPT !.pc = "returned", !.result = Some(DefaultAfterRetries)])
    /\ GeminiFrame

NextGemini == GeminiStart \/ GeminiAttempt \/ GeminiExhausted

SpecGemini == InitGemini /\ [][NextGemini]_vars

\* the attempts made so far that succeeded
Succeeded == { i \in 1..Len(sout[1].log) : sout[1].log[i].error = "none" }

\* C17: analyze_with_gemini never raises; it makes at most max_retries attempts,
\* returns the parsed analysis of the first attempt that succeeds, and when every
\* attempt fails or no API key is configured returns the default analysis: ats_score
\* 70, match_percentage 70 and a non-empty weaknesses list.
C17_GeminiNeverRaises ==
    /\ sout[1].pc # "raised"
    /\ Len(sout[1].log) <= sin[1].max_retries
    /\ \A i \in Succeeded : i = Len(sout[1].log) /\ sout[1].pc = "returned"
    /\ sout[1].pc = "returned" =>
          /\ sout[1].result # None
          /\ \A i \in Succeeded : sout[1].result = sout[1].log[i].data
          /\ Succeeded = {} =>
                /\ sout[1].result[1].ats_score = 70
                /\ sout[1].result[1].match_percentage = 70
                /\ sout[1].result[1].weaknesses # <<>>
                /\ sin[1].api_key => Len(sout[1].log) = sin[1].max_retries

\* the call returned the default after three attempts that failed in different ways
C17_Witness ==
    /\ sout[1].pc = "returned"
    /\ sin[1].api_key /\ sin[1].max_retries = 3
    /\ Len(sout[1].log) = 3
    /\ sout[1].log[1].error = "rate_limit"
    /\ sout[1].log[2].error = "not_found"
    /\ sout[1].log[3].error = "unparsable"
    /\ sout[1].result = Some(DefaultAfterRetries)

(***************************************************************************)
(* The composite score of an analysis, _compute_composite_score of         *)
(* backend/api_routes.py.  A value of the two dicts is None (absent or     *)
(* null) or Some(fraction); the result is counted in hundredths.  round()  *)
(* acts on the binary float: a sum that lies exactly between two           *)
(* hundredths may go either way.                                           *)
(***************************************************************************)
\* float(x or 0)
FloatOr0(x) == IF x = None \/ x[1].num = 0 THEN Whole(0) ELSE x[1]

\* (mutant) the weights of ats_score and match_percentage are exchanged
WeightedSumSwapped(ats_score, match_percentage, skill_match) ==
    Frac(3 * ats_score.num * match_percentage.den * skill_match.den
           + 5 * match_percentage.num * ats_score.den * skill_match.den
           + 2 * skill_match.num * ats_score.den * match_percentage.den,
         10 * ats_score.den * match_percentage.den * skill_match.den)

\* line 47: (0.5 * ats_score) + (0.3 * match_percentage) + (0.2 * skill_match),
\* over the common denominator
WeightedSum(ats_score, match_percentage, skill_match) ==
    Frac(5 * ats_score.num * match_percentage.den * skill_match.den
           + 3 * match_percentage.num * ats_score.den * skill_match.den
           + 2 * skill_match.num * ats_score.den * match_percentage.den,
         10 * ats_score.den * match_percentage.den * skill_match.den)

\* line 48: round(score, 2), the nearest hundredths
Round2(score) ==
    LET below == (100 * score.num) \div score.den
    IN  { r \in {below, below + 1} :
            LET d == 100 * score.num - r * score.den
            IN  2 * (IF d < 0 THEN -d ELSE d) <= score.den }

\* lines 43-48: the scores the call may return
compute_composite_score(component_scores, gemini_analysis) ==
    Round2(WeightedSum(FloatOr0(gemini_analysis.ats_score),
                       FloatOr0(gemini_analysis.match_percentage),
                       FloatOr0(component_scores.skill_match)))

\* the analyses of analyze_with_gemini, and replies with other scores
ScoredAnalyses ==
    [ ats_score : { None, Some(Whole(0)), Some(Whole(DefaultAfterRetries.ats_score)),
                    Some(Whole(80)), Some(Frac(8005, 100)), Some(Whole(100)) },
      match_percentage : { None, Some(Whole(DefaultAfterRetries.match_percentage)),
                           Some(Whole(60)), Some(Whole(100)) } ]

ScoredComponents ==
    [ skill_match : { None, Some(Whole(0)), Some(Whole(50)), Some(Frac(100, 3)), Some(Whole(100)) } ]

InitComposite ==
    /\ sin \in { Some([component_scores |-> c, gemini_analysis |-> g]) :
                    c \in ScoredComponents, g \in ScoredAnalyses }
    /\ sout = None
    /\ eng = EmptyEngine
    /\ obs = [ op |-> "idle", d |-> NoDataset,
               load |-> [kind |-> "none", prev |-> "unbuilt", exc |-> "none"],
               k |-> NoCall ]
    /\ IdleThreads /\ IdleStore

\* line 92 of _create_analysis_record: final_score = _compute_composite_score(...)
ComputeCompositeScore ==
    /\ sin # None /\ sout = None
    /\ \E final_score \in compute_composite_score(sin[1].component_scores, sin[1].gemini_analysis) :
          sout' = Some(final_score)
    /\ UNCHANGED <<sin, eng, obs, rthr, kthr, resumes, analyses, reqs>>

NextComposite == ComputeCompositeScore

SpecComposite == InitComposite /\ [][NextComposite]_vars

\* a score of the dicts, 0 when absent
ScoreOf(x) == IF x = None THEN Frac(0, 1) ELSE x[1]

\* C18: final_score = round(0.5 * ats_score + 0.3 * match_percentage +
\* 0.2 * skill_match, 2), so that ats 80, match 60, skill_match 50 give 68.0; the
\* default analysis (70, 70) is scored by the same formula.
C18_CompositeFormula ==
    sout # None =>
        LET a == ScoreOf(sin[1].gemini_analysis.ats_score)
            m == ScoreOf(sin[1].gemini_analysis.match_percentage)
            k == ScoreOf(sin[1].component_scores.skill_match)
            \* hundred times the exact sum, and the returned hundredths
            exact == Plus(Plus(Frac(50 * a.num, a.den), Frac(30 * m.num, m.den)),
                          Frac(20 * k.num, k.den))
            d == exact.num - sout[1] * exact.den
        IN  /\ -exact.den <= 2 * d /\ 2 * d <= exact.den
            /\ (a = Whole(80) /\ m = Whole(60) /\ k = Whole(50)) => sout[1] = 6800
            /\ (a = Whole(70) /\ m = Whole(70) /\ k = Whole(50)) => sout[1] = 6600

\* the default analysis of analyze_with_gemini was scored with skill_match 50
C18_Witness ==
    /\ sout = Some(6600)
    /\ sin[1].gemini_analysis.ats_score = Some(Whole(DefaultAfterRetries.ats_score))
    /\ sin[1].gemini_analysis.match_percentage = Some(Whole(DefaultAfterRetries.match_percentage))
    /\ sin[1].component_scores.skill_match = Some(Whole(50))

(***************************************************************************)
(* calculate_education_score of backend/scorer.py on lists of education    *)
(* entries.                                                                *)
(***************************************************************************)
MaxEducation == 3

\* entries of an education section
EducationEntries ==
    { <<"P", "h", "D", " ", "i", "n", " ", "P", "h", "y", "s", "i", "c", "s">>,
      <<"M", "a", "s", "t", "e", "r", " ", "o", "f", " ", "A", "r", "t", "s">>,
      <<"B", "a", "c", "h", "e", "l", "o", "r", " ", "o", "f", " ", "S", "c", "i", "e", "n", "c", "e">>,
      <<"B", "S", "c", " ", "M", "a", "t", "h", "e", "m", "a", "t", "i", "c", "s">> }

InitEducation ==
    /\ sin \in { Some(e) : e \in SeqsUpTo(EducationEntries, MaxEducation) }
    /\ sout = None
    /\ eng = EmptyEngine
    /\ obs = [ op |-> "idle", d |-> NoDataset,
               load |-> [kind |-> "none", prev |-> "unbuilt", exc |-> "none"],
               k |-> NoCall ]
    /\ IdleThreads /\ IdleStore

\* the call calculate_education_score(education)
CalculateEducationScore ==
    /\ sin # None /\ sout = None
    /\ sout' = Some(calculate_education_score(sin[1]))
    /\ UNCHANGED <<sin, eng, obs, rthr, kthr, resumes, analyses, reqs>>

NextEducation == CalculateEducationScore

SpecEducation == InitEducation /\ [][NextEducation]_vars

IsLetter(c) == \E i \in 1..26 : LowerCase[i] = c \/ UpperCase[i] = c

\* the entry names a term of the tier as a word of its own
MentionsWord(entry, terms) ==
    LET text == lower(entry)
    IN  \E t \in terms : \E i \in 0..Len(text) :
            /\ OccursAt(text, t, i)
            /\ (i = 0 \/ ~IsLetter(text[i]))
            /\ (i + Len(t) = Len(text) \/ ~IsLetter(text[i + Len(t) + 1]))

Mentions(education, terms) == \E i \in 1..Len(education) : MentionsWord(education[i], terms)

\* +30, +20, +10 or 0: the highest tier that the list mentions
HighestTierBonus(education) ==
    IF Mentions(education, DoctorateTerms) THEN 30
    ELSE IF Mentions(education, MasterTerms) THEN 20
    ELSE IF Mentions(education, BachelorTerms) THEN 10
    ELSE 0

\* C19: the education score is 30 for an empty list, and otherwise 50 plus the
\* bonus of the highest tier mentioned plus 10 for more than one entry, capped at
\* 100; a list that mentions only bachelor's-level degrees gets neither +20 nor +30.
C19_EducationHighestTierOnly ==
    sout # None =>
        IF sin[1] = <<>> THEN sout[1] = Whole(30)
        ELSE sout[1] = Whole(Min(100, 50 + HighestTierBonus(sin[1])
                                         + (IF Len(sin[1]) > 1 THEN 10 ELSE 0)))

(***************************************************************************)
(* calculate_experience_score of backend/scorer.py on two numbers of       *)
(* years, the first not above the second; years are counted in tenths.     *)
(***************************************************************************)
MaxTenths == 105

InitExperience ==
    /\ sin \in { Some(<<y1, y2>>) : y1, y2 \in 0..MaxTenths } 
    /\ sin[1][1] <= sin[1][2]
    /\ sout = None
    /\ eng = EmptyEngine
    /\ obs = [ op |-> "idle", d |-> NoDataset,
               load |-> [kind |-> "none", prev |-> "unbuilt", exc |-> "none"],
               k |-> NoCall ]
    /\ IdleThreads /\ IdleStore

\* the calls calculate_experience_score(y1) and calculate_experience_score(y2)
CalculateExperienceScore ==
    /\ sin # None /\ sout = None
    /\ sout' = Some(<<calculate_experience_score(sin[1][1]), calculate_experience_score(sin[1][2])>>)
    /\ UNCHANGED <<sin, eng, obs, rthr, kthr, resumes, analyses, reqs>>

NextExperience == CalculateExperienceScore

SpecExperience == InitExperience /\ [][NextExperience]_vars

\* the step of the table for y tenths of a year
StepOf(y) ==
    IF y = 0 THEN 20
    ELSE IF 0 < y /\ y < 10 THEN 40
    ELSE IF 10 <= y /\ y < 20 THEN 60
    ELSE IF 20 <= y /\ y < 50 THEN 80
    ELSE IF 50 <= y /\ y < 100 THEN 90
    ELSE 100

\* C20: over years >= 0 the experience score is 20 at 0, 40 below 1, 60 from 1
\* to below 2, 80 from 2 to below 5, 90 from 5 to below 10 and 100 from 10 on, and
\* it never decreases when the years grow.
C20_ExperienceSteps ==
    sout # None =>
        /\ sout[1][1] = Whole(StepOf(sin[1][1]))
        /\ sout[1][2] = Whole(StepOf(sin[1][2]))
        /\ Leq(sout[1][1], sout[1][2])

\* 9.9 and 10 years were scored: 90 and 100
C20_Witness == sin = Some(<<99, 100>>) /\ sout = Some(<<Whole(90), Whole(100)>>)

(***************************************************************************)
(* calculate_skill_match_score of backend/scorer.py on long lists of       *)
(* skills, with and without job keywords.                                  *)
(***************************************************************************)
MaxSkillCount == 25

\* the lists of n skills: one skill repeated, or two skills in turn
SkillLists ==
    { [i \in 1..n |-> <<"S", "Q", "L">>] : n \in 0..MaxSkillCount }
      \cup { [i \in 1..n |-> IF i % 2 = 1 THEN <<"P", "y", "t", "h", "o", "n">>
                                          ELSE <<"S", "Q", "L">>] : n \in 0..MaxSkillCount }

InitSkill ==
    /\ sin \in { Some([skills |-> k, job_keywords |-> j]) :
                    k \in SkillLists, j \in SeqsUpTo(KeywordPool, MaxKeywords) }
    /\ sout = None
    /\ eng = EmptyEngine
    /\ obs = [ op |-> "idle", d |-> NoDataset,
               load |-> [kind |-> "none", prev |-> "unbuilt", exc |-> "none"],
               k |-> NoCall ]
    /\ IdleThreads /\ IdleStore

\* the call calculate_skill_match_score(skills, job_keywords)
CalculateSkillMatchScore ==
    /\ sin # None /\ sout = None
    /\ sout' = Some(calculate_skill_match_score(sin[1].skills, sin[1].job_keywords))
    /\ UNCHANGED <<sin, eng, obs, rthr, kthr, resumes, analyses, reqs>>

NextSkill == CalculateSkillMatchScore

SpecSkill == InitSkill /\ [][NextSkill]_vars

\* C21: without job keywords, skill_match = min(5 * |skills|, 100); no skills and
\* no job keywords give 0.
C21_SkillCountWithoutKeywords ==
    (sout # None /\ sin[1].job_keywords = <<>>) =>
        /\ sout[1] = Whole(Min(5 * Len(sin[1].skills), 100))
        /\ sin[1].skills = <<>> => sout[1] = Whole(0)

\* 21 skills without job keywords were scored 100: the cap acted
C21_Witness ==
    /\ sout = Some(Whole(100))
    /\ sin[1].job_keywords = <<>>
    /\ Len(sin[1].skills) = 21

\* the band of a density of n occurrences in w words, w > 0: 100 * n / w against
\* the limits 0.1, 0.5, 1, 3, 5 and 7
DensityBand(n, w) ==
    IF w <= 100 * n /\ 100 * n <= 3 * w THEN 100
    ELSE IF (w <= 200 * n /\ 100 * n < w) \/ (3 * w < 100 * n /\ 100 * n <= 5 * w) THEN 80
    ELSE IF (w <= 1000 * n /\ 200 * n < w) \/ (5 * w < 100 * n /\ 100 * n <= 7 * w) THEN 60
    ELSE 40

\* C22: keyword_density is 50 without job keywords; with job keywords it is the
\* band of 100 * occurrences / word count (100, 80, 60 or 40), and every text
\* given with keywords gets one of the four bands.
C22_KeywordDensityBands ==
    sout # None =>
        LET keyword_density == sout[1].scores.keyword_density
            text == sin[1].text
            keywords == sin[1].job_keywords
            occurrences == SumOfCounts(lower(text), [i \in 1..Len(keywords) |-> lower(keywords[i])])
        IN  IF keywords = <<>> THEN keyword_density = Whole(50)
            ELSE /\ keyword_density \in { Whole(100), Whole(80), Whole(60), Whole(40) }
                 /\ WordCount(text) > 0 =>
                        keyword_density = Whole(DensityBand(occurrences, WordCount(text)))

(***************************************************************************)
(* extract_experience of backend/nlp_processor.py.  The result is counted  *)
(* in tenths of a year, the sum of years and months in twelfths.           *)
(***************************************************************************)
MaxPieces == 3

\* the position after the digits that start at i
RECURSIVE DigitRunEnd(_, _)
DigitRunEnd(text, i) ==
    IF i <= Len(text) /\ IsDigit(text[i]) THEN DigitRunEnd(text, i + 1) ELSE i

\* the positions where a run of digits starts: a match of (\d+) starts there only
DigitRunStarts(text) ==
    { i \in 1..Len(text) : IsDigit(text[i]) /\ (i = 1 \/ ~IsDigit(text[i - 1])) }

\* the position after (\d+)\+?\s* matched from i on
AfterNumber(text, i) ==
    LET e == DigitRunEnd(text, i)
        p == IF e <= Len(text) /\ text[e] = "+" THEN e + 1 ELSE e
    IN  SkipWhitespace(text, p)

\* lines 87-88: (?:years?|yrs?) and (?:y\.?o\.?e\.?) under re.IGNORECASE
YearWords ==
    { <<"y", "e", "a", "r">>, <<"y", "r">>,
      <<"y", "o", "e">>, <<"y", ".", "o", "e">>, <<"y", "o", ".", "e">>, <<"y", ".", "o", ".", "e">> }

\* line 92: (?:months?|mos?)
MonthWords == { <<"m", "o">> }

\* lines 94-100 and 103: the numbers that re.findall returns for the words
DurationMentions(text, words) ==
    { i \in DigitRunStarts(text) : \E w \in words : WordAt(text, AfterNumber(text, i), w) }

NumberAt(text, i) == ToInt(SubSeq(text, i, DigitRunEnd(text, i) - 1))

\* lines 94-100: years = max(years, int(match)) from 0
MaxYears(text) ==
    LET found == { NumberAt(text, i) : i \in DurationMentions(text, YearWords) }
    IN  IF found = {} THEN 0 ELSE CHOOSE n \in found : \A m \in found : m <= n

\* lines 103-108: months += int(match)
RECURSIVE SumAt(_, _)
SumAt(text, positions) ==
    IF positions = {} THEN 0
    ELSE LET i == CHOOSE j \in positions : TRUE
         IN  NumberAt(text, i) + SumAt(text, positions \ {i})

\* round(x, 1) of x = twelfths / 12, in tenths: halves go to the even tenth
Round1(twelfths) ==
    LET q == (10 * twelfths) \div 12
        r == (10 * twelfths) % 12
    IN  IF r < 6 THEN q ELSE IF r > 6 THEN q + 1 ELSE IF q % 2 = 0 THEN q ELSE q + 1

\* lines 80-122
extract_experience(text) ==
    LET total_years == 12 * MaxYears(text) + SumAt(text, DurationMentions(text, MonthWords))
        date_matches == FindAllFrom(text, 1)
    IN  IF total_years = 0 /\ date_matches # <<>>
        THEN Round1(Len(date_matches) * 30)
        ELSE Round1(total_years)

\* the pieces of the texts: durations, date ranges and a word
ExperiencePieces ==
    { <<"0", " ", "y", "e", "a", "r", "s">>,
      <<"3", "+", " ", "y", "r", "s">>,
      <<"2", " ", "Y", ".", "O", ".", "E">>,
      <<"6", " ", "m", "o", "n", "t", "h", "s">>,
      <<"3", " ", "m", "o", "s">>,
      <<"2", "0", "1", "5", "-", "2", "0", "2", "0">>,
      <<"2", "0", "1", "9", " ", "-", " ", "P", "r", "e", "s", "e", "n", "t">>,
      <<"J", "a", "v", "a">> }

RECURSIVE JoinPieces(_)
JoinPieces(pieces) ==
    IF pieces = <<>> THEN <<>>
    ELSE IF Len(pieces) = 1 THEN pieces[1]
    ELSE pieces[1] \o <<" ">> \o JoinPieces(Tail(pieces))

InitExtract ==
    /\ sin \in { Some(JoinPieces(p)) : p \in SeqsUpTo(ExperiencePieces, MaxPieces) }
    /\ sout = None
    /\ eng = EmptyEngine
    /\ obs = [ op |-> "idle", d |-> NoDataset,
               load |-> [kind |-> "none", prev |-> "unbuilt", exc |-> "none"],
               k |-> NoCall ]
    /\ IdleThreads /\ IdleStore

\* the call extract_experience(text)
ExtractExperience ==
    /\ sin # None /\ sout = None
    /\ sout' = Some(extract_experience(sin[1]))
    /\ UNCHANGED <<sin, eng, obs, rthr, kthr, resumes, analyses, reqs>>

NextExtract == ExtractExperience

SpecExtract == InitExtract /\ [][NextExtract]_vars

\* C23: the date-range estimate (2.5 years for each range) is used only when the
\* text holds no years or months mention at all; with any mention the result is
\* the largest years mention plus the months mentions over 12, rounded to one
\* decimal; the result is never negative.
C23_FallbackOnlyWithoutMention ==
    sout # None =>
        /\ sout[1] >= 0
        /\ IF DurationMentions(sin[1], YearWords) \cup DurationMentions(sin[1], MonthWords) # {}
           THEN sout[1] = Round1(12 * MaxYears(sin[1]) + SumAt(sin[1], DurationMentions(sin[1], MonthWords)))
           ELSE sout[1] = 25 * Len(FindAllFrom(sin[1], 1))

(***************************************************************************)
(* mask_pii of backend/nlp_processor.py: five re.sub passes, each          *)
(* replacing the matches of one pattern from left to right.  A match is    *)
(* given by the position after it, 0 when the pattern does not match at    *)
(* the position.                                                           *)
(***************************************************************************)
MaxMaskPieces == 3

Letters == Range(UpperCase) \cup Range(LowerCase)
DigitChars == Range(Digits)

\* \b at position i: exactly one of text[i - 1] and text[i] is a word character
WordBoundary(text, i) ==
    (i > 1 /\ IsWordChar(text[i - 1])) # (i <= Len(text) /\ IsWordChar(text[i]))

\* \d{n} at position i
DigitsAt(text, i, n) == i + n - 1 <= Len(text) /\ \A j \in i..(i + n - 1) : IsDigit(text[j])

\* [...]? at position i: the position after it
Optional(text, i, chars) == IF i <= Len(text) /\ text[i] \in chars THEN i + 1 ELSE i

\* [...]* at position i, as long as it can be: the position after it
RECURSIVE RunEnd(_, _, _)
RunEnd(text, i, chars) ==
    IF i <= Len(text) /\ text[i] \in chars THEN RunEnd(text, i + 1, chars) ELSE i

\* line 37: \b[A-Za-z0-9._%+-]+@[A-Za-z0-9.-]+\.[A-Z|a-z]{2,}\b ; the domain and the
\* last part give back characters until the rest matches
EmailEnd(text, i) ==
    LET at == RunEnd(text, i, Letters \cup DigitChars \cup {".", "_", "%", "+", "-"})
        domain == RunEnd(text, at + 1, Letters \cup DigitChars \cup {".", "-"})
        LastPartEnds(dot) ==
            { t \in (dot + 3)..RunEnd(text, dot + 1, Letters \cup {"|"}) : WordBoundary(text, t) }
        dots == { d \in (at + 2)..(domain - 1) : text[d] = "." /\ LastPartEnds(d) # {} }
    IN  IF ~WordBoundary(text, i) \/ at = i \/ at > Len(text) THEN 0
        ELSE IF text[at] # "@" \/ dots = {} THEN 0
        ELSE LET dot == CHOOSE d \in dots : \A e \in dots : e <= d
             IN  CHOOSE t \in LastPartEnds(dot) : \A u \in LastPartEnds(dot) : u <= t

\* line 39: \b\d{3}[-.]?\d{3}[-.]?\d{4}\b
PhoneEnd(text, i) ==
    LET a == Optional(text, i + 3, {"-", "."})
        b == Optional(text, a + 3, {"-", "."})
    IN  IF /\ WordBoundary(text, i) /\ DigitsAt(text, i, 3) /\ DigitsAt(text, a, 3)
           /\ DigitsAt(text, b, 4) /\ WordBoundary(text, b + 4)
        THEN b + 4 ELSE 0

\* line 41: \b\d{3}-\d{2}-\d{4}\b
SsnEnd(text, i) ==
    IF /\ WordBoundary(text, i) /\ DigitsAt(text, i, 3)
       /\ i + 3 <= Len(text) /\ text[i + 3] = "-" /\ DigitsAt(text, i + 4, 2)
       /\ i + 6 <= Len(text) /\ text[i + 6] = "-" /\ DigitsAt(text, i + 7, 4)
       /\ WordBoundary(text, i + 11)
    THEN i + 11 ELSE 0

\* line 43: \b\d{4}[\s-]?\d{4}[\s-]?\d{4}[\s-]?\d{4}\b
CardEnd(text, i) ==
    LET a == Optional(text, i + 4, Whitespace \cup {"-"})
        b == Optional(text, a + 4, Whitespace \cup {"-"})
        c == Optional(text, b + 4, Whitespace \cup {"-"})
    IN  IF /\ WordBoundary(text, i) /\ DigitsAt(text, i, 4) /\ DigitsAt(text, a, 4)
           /\ DigitsAt(text, b, 4) /\ DigitsAt(text, c, 4) /\ WordBoundary(text, c + 4)
        THEN c + 4 ELSE 0

\* line 45: the alternatives of the address pattern, in lower case (re.IGNORECASE)
StreetWords ==
    { <<"s", "t", "r", "e", "e", "t">>, <<"s", "t">>, <<"a", "v", "e", "n", "u", "e">>, <<"a", "v", "e">>,
      <<"r", "o", "a", "d">>, <<"r", "d">>, <<"d", "r", "i", "v", "e">>, <<"d", "r">>,
      <<"l", "a", "n", "e">>, <<"l", "n">>, <<"b", "o", "u", "l", "e", "v", "a", "r", "d">>, <<"b", "l", "v", "d">> }

\* line 45: \b\d+\s+[A-Za-z\s]+(?:Street|St|...)\b ; the letters and spaces give back
\* characters until a street word with \b after it follows
AddressEnd(text, i) ==
    LET number == RunEnd(text, i, DigitChars)
        run == RunEnd(text, number, Letters \cup Whitespace)
        EndsAt(w) == { e \in {w + Len(word) : word \in StreetWords} :
                         /\ \E word \in StreetWords : e = w + Len(word) /\ WordAt(text, w, word)
                         /\ WordBoundary(text, e) }
        words == { w \in (number + 2)..(run - 1) : EndsAt(w) # {} }
    IN  IF ~WordBoundary(text, i) \/ number = i \/ number > Len(text) THEN 0
        ELSE IF text[number] \notin Whitespace \/ words = {} THEN 0
        ELSE LET w == CHOOSE v \in words : \A u \in words : u <= v
             IN  CHOOSE e \in EndsAt(w) : TRUE

\* re.sub from position i on: ends[j] is the position after the match at j, or 0
RECURSIVE Replace(_, _, _, _)
Replace(text, ends, marker, i) ==
    IF i > Len(text) THEN <<>>
    ELSE IF ends[i] > i THEN marker \o Replace(text, ends, marker, ends[i])
    ELSE <<text[i]>> \o Replace(text, ends, marker, i + 1)

EmailMarker == <<"[", "E", "M", "A", "I", "L", "]">>
PhoneMarker == <<"[", "P", "H", "O", "N", "E", "]">>
\* (mutant) the marker of a social security number looks like a phone number
SsnMarkerLikePhone == <<"5", "5", "5", "-", "1", "2", "3", "-", "4", "5", "6", "7">>
SsnMarker == <<"[", "S", "S", "N", "]">>
CardMarker == <<"[", "C", "A", "R", "D", "]">>
AddressMarker == <<"[", "A", "D", "D", "R", "E", "S", "S", "]">>

SubEmail(text) == Replace(text, [i \in 1..Len(text) |-> EmailEnd(text, i)], EmailMarker, 1)
SubPhone(text) == Replace(text, [i \in 1..Len(text) |-> PhoneEnd(text, i)], PhoneMarker, 1)
SubSsn(text) == Replace(text, [i \in 1..Len(text) |-> SsnEnd(text, i)], SsnMarker, 1)
SubCard(text) == Replace(text, [i \in 1..Len(text) |-> CardEnd(text, i)], CardMarker, 1)
SubAddress(text) == Replace(text, [i \in 1..Len(text) |-> AddressEnd(text, i)], AddressMarker, 1)

\* lines 34-46
mask_pii(text) == SubAddress(SubCard(SubSsn(SubPhone(SubEmail(text)))))

\* a line with an email, a phone number and a social security number
ContactLine ==
    <<"a", "@", "b", ".", "c", "d", " ", "5", "5", "5", ".", "1", "2", "3", ".", "4", "5", "6", "7", " ", "1", "2", "3", "-", "4", "5", "-", "6", "7", "8", "9">>

\* the pieces of the texts: the contact line, an email, a phone number, a social
\* security number, a card number, an address, and characters that join or break them
MaskPieces ==
    { ContactLine, <<"a", "@", "b", ".", "c", "d">>,
      <<"5", "5", "5", "-", "1", "2", "3", "-", "4", "5", "6", "7">>,
      <<"1", "2", "3", "-", "4", "5", "-", "6", "7", "8", "9">>,
      <<"1", "2", "3", "4", " ", "5", "6", "7", "8", "-", "9", "0", "1", "2", "3", "4", "5", "6">>,
      <<"1", "2", " ", "M", "a", "i", "n", " ", "S", "t">>,
      <<" ">>, <<"5">>, <<"@">>, <<"-">> }

RECURSIVE Concat(_)
Concat(pieces) == IF pieces = <<>> THEN <<>> ELSE Head(pieces) \o Concat(Tail(pieces))

InitMask ==
    /\ sin \in { Some(Concat(p)) : p \in SeqsUpTo(MaskPieces, MaxMaskPieces) }
    /\ sout = None
    /\ eng = EmptyEngine
    /\ obs = [ op |-> "idle", d |-> NoDataset,
               load |-> [kind |-> "none", prev |-> "unbuilt", exc |-> "none"],
               k |-> NoCall ]
    /\ IdleThreads /\ IdleStore

\* the calls mask_pii(x) and mask_pii(mask_pii(x))
MaskPii ==
    /\ sin # None /\ sout = None
    /\ LET once == mask_pii(sin[1])
       IN  sout' = Some([once |-> once, twice |-> mask_pii(once)])
    /\ UNCHANGED <<sin, eng, obs, rthr, kthr, resumes, analyses, reqs>>

NextMask == MaskPii

SpecMask == InitMask /\ [][NextMask]_vars

\* C24: mask_pii(mask_pii(x)) = mask_pii(x) for every text x: the inserted
\* markers never create a new match of one of the five patterns.
C24_MaskIdempotent == sout # None => sout[1].twice = sout[1].once

\* the contact line was masked, after a card number
C24_Witness ==
    /\ sin = Some(<<"1", "2", "3", "4", " ", "5", "6", "7", "8", "-", "9", "0", "1", "2", "3", "4", "5", "6">> \o <<" ">> \o ContactLine)
    /\ sout # None
    /\ sout[1].once = CardMarker \o <<" ">> \o EmailMarker \o <<" ">> \o PhoneMarker \o <<" ">> \o SsnMarker
    /\ sout[1].twice = sout[1].once

(***************************************************************************)
(* POST /mark_best for a resume without analysis record.                   *)
(***************************************************************************)
\* C26: a mark_best request for a resume_id that has no analysis record fails with
\* 404 and leaves the is_best flag of every analysis record as it was: no step of
\* such a request changes db.analyses.
C26_UnknownResumeLeavesFlags ==
    [][\A s \in Slots :
          (/\ reqs[s].kind = "mark_best" /\ reqs[s].rid = UnknownId
           /\ reqs'[s] # reqs[s])
             => /\ analyses' = analyses
                /\ reqs'[s].pc = "done" => reqs'[s].status = 404]_vars

(***************************************************************************)
(* POST /analyze_single, GET /analyses/{resume_id} and                     *)
(* DELETE /resumes/{resume_id} of backend/api_routes.py on the store of    *)
(* the routes above: one action for each database call of a request.       *)
(* created_at is the time of the insert, so db.analyses, in insertion      *)
(* order, is sorted by created_at.                                         *)
(***************************************************************************)
\* find_one({"resume_id": rid}, sort=[("created_at", -1)]): the newest record of
\* the resume, 0 when there is none
NewestOfResume(as, rid) ==
    IF \E i \in 1..Len(as) : as[i].resume_id = rid
    THEN CHOOSE i \in 1..Len(as) :
            as[i].resume_id = rid /\ \A j \in (i + 1)..Len(as) : as[j].resume_id # rid
    ELSE 0

\* delete_many({"resume_id": rid})
RECURSIVE DeleteOfResume(_, _)
DeleteOfResume(as, rid) ==
    IF as = <<>> THEN <<>>
    ELSE IF Head(as).resume_id = rid THEN DeleteOfResume(Tail(as), rid)
    ELSE <<Head(as)>> \o DeleteOfResume(Tail(as), rid)

\* POST /analyze_single with resume_id rid arrives
AnalyzeSingleBegin(s) ==
    /\ reqs[s].kind = "idle"
    /\ \E rid \in ResumeIds \cup {UnknownId} :
          reqs' = [reqs EXCEPT ![s] = [IdleRequest EXCEPT !.kind = "analyze_single",
                                                          !.pc = "find", !.rid = rid]]
    /\ UNCHANGED <<resumes, analyses>> /\ StoreFrame

\* lines 415-417: await db.resumes.find_one(...), 404 without the resume
AnalyzeSingleFind(s) ==
    /\ reqs[s].kind = "analyze_single" /\ reqs[s].pc = "find"
    /\ reqs' = IF reqs[s].rid \in resumes
               THEN [reqs EXCEPT ![s].pc = "insert"]
               ELSE [reqs EXCEPT ![s].pc = "done", ![s].status = 404]
    /\ UNCHANGED <<resumes, analyses>> /\ StoreFrame

\* lines 420-474: the scores and await analyze_with_gemini(...), then
\* await db.analyses.insert_one(...) and 200, or 500 when a call raises
AnalyzeSingleInsert(s) ==
    /\ reqs[s].kind = "analyze_single" /\ reqs[s].pc = "insert"
    /\ \/ /\ Len(analyses) < MaxAnalyses
          /\ analyses' = Append(analyses, [id |-> NextAnalysisId(analyses),
                                           resume_id |-> reqs[s].rid,
                                           is_best |-> FALSE])
          /\ reqs' = [reqs EXCEPT ![s].pc = "done", ![s].status = 200]
       \/ /\ reqs' = [reqs EXCEPT ![s].pc = "done", ![s].status = 500]
          /\ UNCHANGED analyses
    /\ UNCHANGED resumes /\ StoreFrame

\* GET /analyses/{rid} arrives
GetAnalysisBegin(s) ==
    /\ reqs[s].kind = "idle"
    /\ \E rid \in ResumeIds \cup {UnknownId} :
          reqs' = [reqs EXCEPT ![s] = [IdleRequest EXCEPT !.kind = "get_analysis",
                                                          !.pc = "find", !.rid = rid]]
    /\ UNCHANGED <<resumes, analyses>> /\ StoreFrame

\* lines 853-870: await db.analyses.find_one(...), 404 or the record as the response
GetAnalysisFind(s) ==
    /\ reqs[s].kind = "get_analysis" /\ reqs[s].pc = "find"
    /\ LET i == NewestOfResume(analyses, reqs[s].rid)
       IN  reqs' = IF i = 0
                   THEN [reqs EXCEPT ![s].pc = "done", ![s].status = 404]
                   ELSE [reqs EXCEPT ![s].pc = "done", ![s].status = 200,
                                     ![s].entries = <<analyses[i]>>]
    /\ UNCHANGED <<resumes, analyses>> /\ StoreFrame

\* DELETE /resumes/{rid} arrives
DeleteBegin(s) ==
    /\ reqs[s].kind = "idle"
    /\ \E rid \in ResumeIds \cup {UnknownId} :
          reqs' = [reqs EXCEPT ![s] = [IdleRequest EXCEPT !.kind = "delete",
                                                          !.pc = "find", !.rid = rid]]
    /\ UNCHANGED <<resumes, analyses>> /\ StoreFrame

\* lines 789-791: await db.resumes.find_one(...), 404 without the resume
DeleteFind(s) ==
    /\ reqs[s].kind = "delete" /\ reqs[s].pc = "find"
    /\ reqs' = IF reqs[s].rid \in resumes
               THEN [reqs EXCEPT ![s].pc = "analyses"]
               ELSE [reqs EXCEPT ![s].pc = "done", ![s].status = 404]
    /\ UNCHANGED <<resumes, analyses>> /\ StoreFrame

\* lines 794-802: the file is deleted, then await db.analyses.delete_many(...)
DeleteAnalyses(s) ==
    /\ reqs[s].kind = "delete" /\ reqs[s].pc = "analyses"
    /\ analyses' = DeleteOfResume(analyses, reqs[s].rid)
    /\ reqs' = [reqs EXCEPT ![s].pc = "resume"]
    /\ UNCHANGED resumes /\ StoreFrame

\* lines 805-812: await db.resumes.delete_one(...), 404 when nothing was deleted
DeleteResume(s) ==
    /\ reqs[s].kind = "delete" /\ reqs[s].pc = "resume"
    /\ resumes' = resumes \ {reqs[s].rid}
    /\ reqs' = [reqs EXCEPT ![s].pc = "done",
                            ![s].status = IF reqs[s].rid \in resumes THEN 200 ELSE 404]
    /\ UNCHANGED analyses /\ StoreFrame

\* analyses, mark_best and get_analysis requests, one at a time
NextBest ==
    \/ AnalyzeSingleBegin(1) \/ AnalyzeSingleFind(1) \/ AnalyzeSingleInsert(1)
    \/ MarkBestBegin(1) \/ MarkBestClear(1) \/ MarkBestSet(1)
    \/ GetAnalysisBegin(1) \/ GetAnalysisFind(1)
    \/ Respond(1)

SpecBest == InitStore /\ [][NextBest]_vars

\* C28: after mark_best(r) succeeded, and as long as no other mark_best (and no
\* bulk auto-mark or deletion) happened, so that a record of r carries the flag,
\* get_analysis(r) reports is_best = true, also with several records of r.
C28_MarkedBestIsReported ==
    [][\A s \in Slots :
          (/\ reqs[s].kind = "get_analysis" /\ reqs[s].pc = "find"
           /\ reqs'[s].pc = "done"
           /\ \E i \in 1..Len(analyses) :
                 analyses[i].resume_id = reqs[s].rid /\ analyses[i].is_best)
             => /\ reqs'[s].status = 200
                /\ reqs'[s].entries[1].is_best]_vars

\* analyze_single and delete_resume requests, interleaved
NextOrphan ==
    \E s \in Slots :
        \/ AnalyzeSingleBegin(s) \/ AnalyzeSingleFind(s) \/ AnalyzeSingleInsert(s)
        \/ DeleteBegin(s) \/ DeleteFind(s) \/ DeleteAnalyses(s) \/ DeleteResume(s)
        \/ Respond(s)

SpecOrphan == InitStore /\ [][NextOrphan]_vars

\* C27: in every reachable state every analysis record's resume_id is the id of a
\* resume record that still exists.
C27_NoOrphanAnalysis ==
    \A i \in 1..Len(analyses) : analyses[i].resume_id \in resumes

(***************************************************************************)
(* The resume records: POST /upload, POST /ats_check and POST /feedback    *)
(* beside the routes above (backend/api_routes.py), one request at a       *)
(* time.  resumes is the set of the _ids in db.resumes; sin gives, for     *)
(* every _id issued so far, the document inserted under it, so the         *)
(* documents of db.resumes are those of sin at the ids in resumes.         *)
(* db.feedback is written by POST /feedback only and read by no route      *)
(* here; it is not part of the state.  The parsed text of a file stands    *)
(* for the file.                                                           *)
(***************************************************************************)
\* config.py line 23: settings.MAX_FILES
MAX_FILES == 15
\* the files of a batch that is taken, and the resumes inserted, at most
MaxBatch == 2
MaxResumeId == 2

\* a file of a batch: a resume with text "A", or a file that is refused
BatchFiles == {"A", "bad_extension", "too_large", "unparsable"}

\* the status of the HTTPException for a file that is refused, 0 for a resume
Refusal(file) ==
    IF file \in {"bad_extension", "too_large"} THEN 400
    ELSE IF file = "unparsable" THEN 500
    ELSE 0

\* the sentence model finds equal texts equal, or cannot be loaded
StoredOracles(new_text, existing_texts) ==
    { [exc |-> x, sims |-> [i \in 1..Len(existing_texts) |->
                               IF existing_texts[i].text = new_text THEN 100 ELSE 0]] :
        x \in {"none", "load"} }

\* line 362: existing_texts of the documents with the ids found
ExistingOf(docs, ids) ==
    LET list == AsList(ids)
    IN  [i \in 1..Len(list) |-> [id |-> list[i], text |-> docs[list[i]].parsed_text]]

\* (mutant) the insert also marks the record it duplicates
InsertMarkingOriginal(docs, id, doc) ==
    [i \in DOMAIN docs \cup {id} |->
        IF i = id THEN doc
        ELSE IF doc.duplicate_of = Some(i) THEN [docs[i] EXCEPT !.is_duplicate = TRUE]
        ELSE docs[i]]

\* line 382: insert_one(resume_doc) under the new _id
InsertOne(docs, id, doc) ==
    [i \in DOMAIN docs \cup {id} |-> IF i = id THEN doc ELSE docs[i]]

InitLife ==
    /\ resumes = {}
    /\ sin = <<>>
    /\ sout = None
    /\ analyses = <<>>
    /\ reqs = [s \in Slots |-> IdleRequest]
    /\ eng = EmptyEngine
    /\ obs = [ op |-> "idle", d |-> NoDataset,
               load |-> [kind |-> "none", prev |-> "unbuilt", exc |-> "none"],
               k |-> NoCall ]
    /\ IdleThreads

LifeFrame == UNCHANGED <<eng, obs, rthr, kthr>>

\* POST /upload arrives with its files; lines 325-329: 400 for too many files
UploadBegin(s) ==
    /\ reqs[s].kind = "idle"
    /\ \E files \in (SeqsUpTo(BatchFiles, MaxBatch) \ {<<>>})
                        \cup {[i \in 1..(MAX_FILES + 1) |-> "A"]} :
          reqs' = [reqs EXCEPT ![s] =
                      IF Len(files) > MAX_FILES
                      THEN [IdleRequest EXCEPT !.kind = "upload", !.pc = "done", !.status = 400]
                      ELSE [IdleRequest EXCEPT !.kind = "upload", !.pc = "file", !.todo = files]]
    /\ UNCHANGED <<resumes, analyses, sin, sout>> /\ LifeFrame

\* lines 333-361 for the next file: 400 for its extension or its size, 500 when
\* parse_resume raises, else await db.resumes.find({}); lines 393-396 after the
\* last file
UploadFind(s) ==
    /\ reqs[s].kind = "upload" /\ reqs[s].pc = "file"
    /\ reqs' = IF reqs[s].todo = <<>>
               THEN [reqs EXCEPT ![s].pc = "done", ![s].status = 200]
               ELSE IF Refusal(Head(reqs[s].todo)) # 0
               THEN [reqs EXCEPT ![s].pc = "done", ![s].status = Refusal(Head(reqs[s].todo))]
               ELSE [reqs EXCEPT ![s].pc = "insert", ![s].ids = resumes]
    /\ UNCHANGED <<resumes, analyses, sin, sout>> /\ LifeFrame

\* lines 362-390: await detect_duplicates(...), then await db.resumes.insert_one(...)
UploadInsert(s) ==
    /\ reqs[s].kind = "upload" /\ reqs[s].pc = "insert"
    /\ Len(sin) < MaxResumeId
    /\ LET text == Head(reqs[s].todo)
           existing_texts == ExistingOf(sin, reqs[s].ids)
           id == Len(sin) + 1
       IN  \E o \in StoredOracles(text, existing_texts) :
              LET r == detect_duplicates(text, existing_texts, o)
                  resume_doc == [ parsed_text |-> text, is_duplicate |-> r.is_duplicate,
                                  duplicate_of |-> r.duplicate_of ]
              IN  /\ sin' = InsertOne(sin, id, resume_doc)
                  /\ resumes' = resumes \cup {id}
                  /\ reqs' = [reqs EXCEPT
                                ![s].pc = "file", ![s].todo = Tail(@), ![s].ids = {},
                                ![s].entries = Append(@, [id |-> id,
                                                          is_duplicate |-> r.is_duplicate,
                                                          duplicate_of |-> r.duplicate_of])]
    /\ UNCHANGED <<analyses, sout>> /\ LifeFrame

\* POST /ats_check arrives
AtsCheckBegin(s) ==
    /\ reqs[s].kind = "idle"
    /\ \E rid \in ResumeIds \cup {UnknownId} :
          reqs' = [reqs EXCEPT ![s] = [IdleRequest EXCEPT !.kind = "ats_check",
                                                          !.pc = "find", !.rid = rid]]
    /\ UNCHANGED <<resumes, analyses, sin, sout>> /\ LifeFrame

\* lines 485-512: await db.resumes.find_one(...), 404 without the resume, else the
\* analysis and the scores as the response, or 500 when calculate_scores raises
AtsCheckFind(s) ==
    /\ reqs[s].kind = "ats_check" /\ reqs[s].pc = "find"
    /\ \E status \in IF reqs[s].rid \in resumes THEN {200, 500} ELSE {404} :
          reqs' = [reqs EXCEPT ![s].pc = "done", ![s].status = status]
    /\ UNCHANGED <<resumes, analyses, sin, sout>> /\ LifeFrame

\* POST /feedback arrives
SubmitFeedbackBegin(s) ==
    /\ reqs[s].kind = "idle"
    /\ \E rid \in ResumeIds \cup {UnknownId} :
          reqs' = [reqs EXCEPT ![s] = [IdleRequest EXCEPT !.kind = "feedback",
                                                          !.pc = "insert", !.rid = rid]]
    /\ UNCHANGED <<resumes, analyses, sin, sout>> /\ LifeFrame

\* lines 557-570: await db.feedback.insert_one(...)
SubmitFeedbackInsert(s) ==
    /\ reqs[s].kind = "feedback" /\ reqs[s].pc = "insert"
    /\ reqs' = [reqs EXCEPT ![s].pc = "done", ![s].status = 200]
    /\ UNCHANGED <<resumes, analyses, sin, sout>> /\ LifeFrame

\* the requests of all the routes, one at a time
\* delete_all_resumes (api_routes.py 818-846); the request holds no input
DeleteAllBegin(s) ==
    /\ reqs[s].kind = "idle"
    /\ reqs' = [reqs EXCEPT ![s] = [IdleRequest EXCEPT !.kind = "delete_all",
                                                       !.pc = "find"]]
    /\ UNCHANGED <<resumes, analyses>> /\ StoreFrame

\* lines 823-832: await db.resumes.find({}), the files are deleted from storage
DeleteAllFind(s) ==
    /\ reqs[s].kind = "delete_all" /\ reqs[s].pc = "find"
    /\ reqs' = [reqs EXCEPT ![s].pc = "analyses"]
    /\ UNCHANGED <<resumes, analyses>> /\ StoreFrame

\* line 835: await db.analyses.delete_many({})
DeleteAllAnalyses(s) ==
    /\ reqs[s].kind = "delete_all" /\ reqs[s].pc = "analyses"
    /\ analyses' = <<>>
    /\ reqs' = [reqs EXCEPT ![s].pc = "resume"]
    /\ UNCHANGED resumes /\ StoreFrame

\* lines 838-842: await db.resumes.delete_many({})
DeleteAllResumes(s) ==
    /\ reqs[s].kind = "delete_all" /\ reqs[s].pc = "resume"
    /\ resumes' = {}
    /\ reqs' = [reqs EXCEPT ![s].pc = "done", ![s].status = 200]
    /\ UNCHANGED analyses /\ StoreFrame

NextLife ==
    \/ UploadBegin(1) \/ UploadFind(1) \/ UploadInsert(1)
    \/ AnalyzeSingleBegin(1) \/ AnalyzeSingleFind(1) \/ AnalyzeSingleInsert(1)
    \/ BulkBegin(1) \/ BulkFind(1) \/ BulkAnalyze(1) \/ BulkClear(1) \/ BulkSet(1)
    \/ AtsCheckBegin(1) \/ AtsCheckFind(1)
    \/ MarkBestBegin(1) \/ MarkBestClear(1) \/ MarkBestSet(1)
    \/ SubmitFeedbackBegin(1) \/ SubmitFeedbackInsert(1)
    \/ DeleteBegin(1) \/ DeleteFind(1) \/ DeleteAnalyses(1) \/ DeleteResume(1)
    \/ DeleteAllBegin(1) \/ DeleteAllFind(1) \/ DeleteAllAnalyses(1)
    \/ DeleteAllResumes(1)
    \/ Respond(1)

SpecLife == InitLife /\ [][NextLife]_vars

\* C25: a stored resume record is never changed in place: no step of any request
\* changes a field of a record that stays in db.resumes; a record leaves only in
\* a delete_resume or delete_all_resumes request; a record enters only in an
\* upload, under an _id that no record had before, also when the same document
\* is uploaded again.
C25_ResumeRecordsImmutable ==
    [][/\ \A id \in resumes \cap resumes' : sin'[id] = sin[id]
       /\ \A id \in resumes' \ resumes :
             /\ id \notin DOMAIN sin
             /\ \E s \in Slots : reqs[s].kind = "upload"
       /\ resumes \ resumes' # {}
             => \E s \in Slots : reqs[s].kind \in {"delete", "delete_all"}]_vars

\* the same document was uploaded twice and is stored under two ids, the second
\* record naming the first; the first was analyzed and marked best since
C25_Witness ==
    /\ resumes = {1, 2}
    /\ sin[1].parsed_text = sin[2].parsed_text
    /\ ~sin[1].is_duplicate
    /\ sin[2].is_duplicate /\ sin[2].duplicate_of = Some(1)
    /\ \E i \in 1..Len(analyses) : analyses[i].resume_id = 1 /\ analyses[i].is_best

\* C29: an upload request that is rejected with an error has stored no resume
\* record, wherever the refused file stands in the batch.
C29_RejectedUploadStoresNothing ==
    \A s \in Slots :
        (reqs[s].kind = "upload" /\ reqs[s].pc = "done" /\ reqs[s].status >= 400)
            => reqs[s].entries = <<>>

\* ---------------------------------------------------------------------------
\* Session tokens (auth.py): register_user, login_user, verify_token and
\* logout_user over db.users. In this specification sin is db.users, a list of
\* documents in insertion order (the index is the _id), and sout is the history
\* of the sessions: issued counts the calls of generate_token, owner names the
\* user each token was handed to in a successful response, session is the token
\* of each user's most recent successful register or login, None after a
\* successful logout. A request keeps its credentials in todo, the token it
\* presents or the _id it found in rid, its success flag in auto, and the user
\* or token it answers with in best.
\* ---------------------------------------------------------------------------

MaxTokens == 4

Emails == {"a@x.io", "b@x.io"}

Passwords == {"pw1", "pw2"}

Tokens == 1..MaxTokens

\* 'resume_intelligence_salt_2024' appended, then SHA-256: one digest per password
hash_password(password) == <<"sha256", password, "resume_intelligence_salt_2024">>

\* find_one({"email": email}): the _id of the user, 0 when there is none
FindByEmail(users, email) ==
    IF \E i \in 1..Len(users) : users[i].email = email
    THEN CHOOSE i \in 1..Len(users) : users[i].email = email
    ELSE 0

\* find_one({"token": token}): the first user holding the token, 0 without one
FindByToken(users, token) ==
    IF \E i \in 1..Len(users) : users[i].token = Some(token)
    THEN CHOOSE i \in 1..Len(users) :
            /\ users[i].token = Some(token)
            /\ \A j \in 1..(i - 1) : users[j].token # Some(token)
    ELSE 0

\* lines 174-184: the user holding the token, None without one
verify_token(users, token) ==
    LET i == FindByToken(users, token)
    IN  IF i = 0 THEN None ELSE Some([id |-> i, email |-> users[i].email])

LogoutKeepingToken(users, token) == users

\* lines 196-199: update_one({"token": token}, {"$set": {"token": None}})
LogoutUpdateOne(users, token) ==
    LET i == FindByToken(users, token)
    IN  IF i = 0 THEN users ELSE [users EXCEPT ![i].token = None]

\* secrets.token_urlsafe(32): 256 random bits, taken as never drawn twice
generate_token(history) == history.issued + 1

InitAuth ==
    /\ sin = <<>>
    /\ sout = [ issued |-> 0, owner |-> <<>>, session |-> [e \in Emails |-> None] ]
    /\ resumes = {}
    /\ analyses = <<>>
    /\ reqs = [s \in Slots |-> IdleRequest]
    /\ eng = EmptyEngine
    /\ obs = [ op |-> "idle", d |-> NoDataset,
               load |-> [kind |-> "none", prev |-> "unbuilt", exc |-> "none"],
               k |-> NoCall ]
    /\ IdleThreads

AuthFrame == UNCHANGED <<eng, obs, rthr, kthr, resumes, analyses>>

\* a token was handed to the user in a successful register or login response
Issue(history, token, email) ==
    [ issued |-> token,
      owner |-> Append(history.owner, email),
      session |-> [history.session EXCEPT ![email] = Some(token)] ]

\* POST /auth/register arrives, the email already validated and lowercased
RegisterBegin(s) ==
    /\ reqs[s].kind = "idle"
    /\ \E email \in Emails, password \in Passwords :
          reqs' = [reqs EXCEPT ![s] = [IdleRequest EXCEPT !.kind = "register",
                                          !.pc = "find",
                                          !.todo = <<email, password>>]]
    /\ UNCHANGED <<sin, sout>> /\ AuthFrame

\* lines 72-77: await find_one({"email": ...}), refused when the email is taken
RegisterFind(s) ==
    /\ reqs[s].kind = "register" /\ reqs[s].pc = "find"
    /\ reqs' = IF FindByEmail(sin, reqs[s].todo[1]) # 0
               THEN [reqs EXCEPT ![s].pc = "done", ![s].auto = FALSE]
               ELSE [reqs EXCEPT ![s].pc = "insert"]
    /\ UNCHANGED <<sin, sout>> /\ AuthFrame

\* lines 80-113: the token is generated, await insert_one(new_user); the unique
\* index on email (database.py line 48) fails the insert of a second user with
\* the email, and the exception is answered with success False
RegisterInsert(s) ==
    /\ reqs[s].kind = "register" /\ reqs[s].pc = "insert"
    /\ sout.issued < MaxTokens
    /\ LET email == reqs[s].todo[1]
           token == generate_token(sout)
       IN  IF FindByEmail(sin, email) # 0
           THEN /\ reqs' = [reqs EXCEPT ![s].pc = "done", ![s].auto = FALSE]
                /\ sout' = [sout EXCEPT !.issued = token,
                                        !.owner = Append(sout.owner, "")]
                /\ UNCHANGED sin
           ELSE /\ sin' = Append(sin, [ email |-> email,
                                         password |-> hash_password(reqs[s].todo[2]),
                                         token |-> Some(token) ])
                /\ sout' = Issue(sout, token, email)
                /\ reqs' = [reqs EXCEPT ![s].pc = "done", ![s].auto = TRUE,
                                        ![s].best = Some(token)]
    /\ AuthFrame

\* POST /auth/login arrives
LoginBegin(s) ==
    /\ reqs[s].kind = "idle"
    /\ \E email \in Emails, password \in Passwords :
          reqs' = [reqs EXCEPT ![s] = [IdleRequest EXCEPT !.kind = "login",
                                          !.pc = "find",
                                          !.todo = <<email, password>>]]
    /\ UNCHANGED <<sin, sout>> /\ AuthFrame

\* lines 122-136: await find_one({"email": ...}); refused without the account
\* or when the password's hash differs from the stored one
LoginFind(s) ==
    /\ reqs[s].kind = "login" /\ reqs[s].pc = "find"
    /\ LET i == FindByEmail(sin, reqs[s].todo[1])
       IN  reqs' = IF i = 0 \/ sin[i].password # hash_password(reqs[s].todo[2])
                   THEN [reqs EXCEPT ![s].pc = "done", ![s].auto = FALSE]
                   ELSE [reqs EXCEPT ![s].pc = "update", ![s].rid = i]
    /\ UNCHANGED <<sin, sout>> /\ AuthFrame

\* lines 139-159: a new token, await update_one({"_id": ...}, {"$set": {"token": ...}})
LoginUpdate(s) ==
    /\ reqs[s].kind = "login" /\ reqs[s].pc = "update"
    /\ sout.issued < MaxTokens
    /\ LET token == generate_token(sout)
       IN  /\ sin' = [sin EXCEPT ![reqs[s].rid].token = Some(token)]
           /\ sout' = Issue(sout, token, sin[reqs[s].rid].email)
           /\ reqs' = [reqs EXCEPT ![s].pc = "done", ![s].auto = TRUE,
                                   ![s].best = Some(token)]
    /\ AuthFrame

\* GET /auth/verify arrives with a token, issued earlier or made up
VerifyBegin(s) ==
    /\ reqs[s].kind = "idle"
    /\ \E token \in Tokens :
          reqs' = [reqs EXCEPT ![s] = [IdleRequest EXCEPT !.kind = "verify",
                                          !.pc = "find", !.rid = token]]
    /\ UNCHANGED <<sin, sout>> /\ AuthFrame

\* lines 174-184: await find_one({"token": token})
VerifyFind(s) ==
    /\ reqs[s].kind = "verify" /\ reqs[s].pc = "find"
    /\ LET user == verify_token(sin, reqs[s].rid)
       IN  reqs' = [reqs EXCEPT ![s].pc = "done", ![s].auto = (user # None),
                               ![s].best = user]
    /\ UNCHANGED <<sin, sout>> /\ AuthFrame

\* POST /auth/logout arrives with a token
LogoutBegin(s) ==
    /\ reqs[s].kind = "idle"
    /\ \E token \in Tokens :
          reqs' = [reqs EXCEPT ![s] = [IdleRequest EXCEPT !.kind = "logout",
                                          !.pc = "update", !.rid = token]]
    /\ UNCHANGED <<sin, sout>> /\ AuthFrame

\* lines 196-201: await update_one(...), True when a document was modified
LogoutUpdate(s) ==
    /\ reqs[s].kind = "logout" /\ reqs[s].pc = "update"
    /\ LET token == reqs[s].rid
           modified == FindByToken(sin, token) # 0
       IN  /\ sin' = LogoutUpdateOne(sin, token)
           /\ reqs' = [reqs EXCEPT ![s].pc = "done", ![s].auto = modified]
           /\ sout' = IF modified
                      THEN [sout EXCEPT !.session[sout.owner[token]] = None]
                      ELSE sout
    /\ AuthFrame

\* the response is sent
AuthRespond(s) ==
    /\ reqs[s].pc = "done"
    /\ reqs' = [reqs EXCEPT ![s] = IdleRequest]
    /\ UNCHANGED <<sin, sout>> /\ AuthFrame

\* register, login, verify and logout requests, one at a time
NextAuth ==
    \/ RegisterBegin(1) \/ RegisterFind(1) \/ RegisterInsert(1)
    \/ LoginBegin(1) \/ LoginFind(1) \/ LoginUpdate(1)
    \/ VerifyBegin(1) \/ VerifyFind(1)
    \/ LogoutBegin(1) \/ LogoutUpdate(1)
    \/ AuthRespond(1)

SpecAuth == InitAuth /\ [][NextAuth]_vars

\* the user whose most recent successful register or login issued the token and
\* who has not logged out since, None when there is no such user
SessionOf(history, token) ==
    IF \E e \in Emails : history.session[e] = Some(token)
    THEN Some(CHOOSE e \in Emails : history.session[e] = Some(token))
    ELSE None

EmailOf(user) == IF user = None THEN None ELSE Some(user[1].email)

\* C30: verify_token(t) returns a user exactly when t is the token of that
\* user's most recent successful register or login and the user has not logged
\* out since: in every state this holds of every token, and every verify request
\* answers with it; a token replaced by a later login or given up in a logout
\* verifies no more.
C30_TokenVerifiesIffCurrent ==
    [][/\ \A t \in Tokens : EmailOf(verify_token(sin', t)) = SessionOf(sout', t)
       /\ \A s \in Slots :
             (reqs[s].kind = "verify" /\ reqs[s].pc = "find" /\ reqs'[s].pc = "done")
                => EmailOf(reqs'[s].best) = SessionOf(sout, reqs[s].rid)]_vars

\* both users hold a session, the first after a second login, and a verify
\* request with the first user's earlier token was answered with no user
C30_Witness ==
    /\ Len(sin) = 2
    /\ sout.session["a@x.io"] = Some(3) /\ sout.session["b@x.io"] = Some(2)
    /\ sout.owner[1] = "a@x.io"
    /\ \E s \in Slots :
          /\ reqs[s].kind = "verify" /\ reqs[s].pc = "done"
          /\ reqs[s].rid = 1 /\ reqs[s].best = None

====
